---- MODULE Spec2Model ----
(***************************************************************************)
(* Model of the AI todo manager's two server routes                        *)
(*   - normalize-task  (src/app/api/ai/parse-todo/route.ts)                *)
(*   - analyze-tasks   (src/unnamed/part_000)                              *)
(* and of the pure helpers they are built from.                            *)
(*                                                                         *)
(* Strings are sequences of UTF-16 code units (Nat), as String.length,     *)
(* trim, substring and the regular expressions of the source see them.     *)
(* A Date is an instant [d |-> days since 1970-01-01 UTC, ms |-> ms of     *)
(* that day]; local fields are read through the zone offset tz.            *)
(***************************************************************************)
EXTENDS Integers, Sequences, FiniteSets, TLC

VARIABLES
    \* ---- pure text helpers (preprocessInput, validateInput, postprocessTitle)
    job,        \* which helper this behaviour exercises: "text" | "title" | "none"
    rawInput,   \* the request's input string as received
    text,       \* the string handed to preprocessInput / validateInput
    prevText,   \* the argument of the last preprocessInput call
    nPre,       \* how many times preprocessInput has been applied
    verdict,    \* result of validateInput, or NoVerdict
    title,      \* the string handed to postprocessTitle
    titleOut    \* its result, or NoTitle

textVars == <<job, rawInput, text, prevText, nPre, verdict, title, titleOut>>

VARIABLES
    \* ---- environment shared by the two routes
    tz,         \* offset of the server's local zone from UTC, in minutes
    clock,      \* the wall clock: what the next new Date() returns
    apiKey      \* whether GOOGLE_GENERATIVE_AI_API_KEY is set

envVars == <<tz, clock, apiKey>>

VARIABLES
    \* ---- one normalize-task request (parse-todo/route.ts POST)
    pPc,        \* "idle" | "generating" (awaiting generateObject) | "done"
    pBody,      \* the request body: [kind, input]
    pDates,     \* dates = getDateHelpers()
    pNow,       \* now = new Date() of POST
    pParsed,    \* result.object as the generation service returned it
    pFixed,     \* parsedData.due_date and .due_time after the corrections
    pGen,       \* number of generateObject calls made
    pErr,       \* the exception generateObject threw: [thrown, markers]
    pResp       \* the response sent

parseVars == <<pPc, pBody, pDates, pNow, pParsed, pFixed, pGen, pErr, pResp>>

VARIABLES
    \* ---- the record store and one analyze-tasks request (part_000 POST)
    store,      \* the rows of table todos, newest first
    aPc,        \* "idle" | "reading" (awaiting the store) | "generating" | "done"
    aBody,      \* the request body: [kind, period]
    aUser,      \* id of the user supabase.auth.getUser() returns, 0 when there is none
    aRange,     \* dateRange = getDateRange(period)
    aFiltered,  \* filteredTodos
    aNow,       \* now = new Date() of POST
    aStats,     \* the statistics computed for the prompt
    aGen,       \* number of generateText calls made
    aText,      \* result.text, once generateText has returned
    aErr,       \* the exception generateText threw: [thrown, markers]
    aResp       \* the response sent

analyzeVars == <<store, aPc, aBody, aUser, aRange, aFiltered, aNow, aStats, aGen, aText, aErr, aResp>>

\* The analyze-tasks request without the store it reads
requestVars == <<aPc, aBody, aUser, aRange, aFiltered, aNow, aStats, aGen, aText, aErr, aResp>>

VARIABLES
    \* ---- TodoService (useTodos.ts) called from the browsers of the users
    session,    \* per browser: the signed-in user supabase.auth.getUser() returns, 0 if none
    call,       \* per browser: the TodoService call in flight: [op, user]
    last,       \* the last call that returned: [user (whom getUser returned), scope (the
                \* user_id its request filtered on or wrote), category (the one it
                \* wrote), owners (the user_ids of the rows it touched), error]
    nextId      \* the next primary key the store hands out

todoVars == <<session, call, last, nextId>>

\* No TodoService call was ever made
TodoIdle ==
    /\ session = [c \in {1, 2} |-> 0]
    /\ call = [c \in {1, 2} |-> [op |-> "none", user |-> 0]]
    /\ last = [user |-> 0, scope |-> 0, category |-> "none", owners |-> {}, error |-> "idle"]
    /\ nextId = 1

VARIABLES
    \* ---- one mounted TodoForm (components/todo/TodoForm.tsx)
    formData,       \* useState<TodoFormData>: [title, description, due_date, priority, category, completed]
    errors,         \* useState<Partial<TodoFormData>>: [title, description, due_date], "none" when unset
    isAIMode,       \* the AI mode switch
    aiInput,        \* the natural-language text
    isAIParsing,    \* TRUE while handleAISubmit awaits its fetch
    aiCalls,        \* number of fetches handleAISubmit started
    parsesInFlight, \* number of those fetches that have not settled yet
    onSubmitCalls   \* number of calls of props.onSubmit

formVars == <<formData, errors, isAIMode, aiInput, isAIParsing, aiCalls, parsesInFlight, onSubmitCalls>>

\* Lines 54-67: the state of a form mounted without a todo
BlankForm ==
    [ title |-> <<>>, description |-> <<>>, due_date |-> [d |-> -1, ms |-> -1],
      priority |-> "medium", category |-> "work", completed |-> FALSE ]
NoErrors == [title |-> "none", description |-> "none", due_date |-> "none"]
FormIdle ==
    /\ formData = BlankForm /\ errors = NoErrors /\ isAIMode = FALSE /\ aiInput = <<>>
    /\ isAIParsing = FALSE /\ aiCalls = 0 /\ parsesInFlight = 0 /\ onSubmitCalls = 0

VARIABLES
    \* ---- one mounted TodoAnalysis (components/HTTPSRedirect.tsx, lines 68-72)
    loading,            \* useState(false): TRUE while handleAnalyze awaits its fetch
    analysisPeriod,     \* useState('today'): the `period` state
    analysisData,       \* useState(null): "null", or the period of the data shown
    analysisError,      \* useState(null): the `error` state, "null" when unset
    analysesInFlight    \* number of fetches of handleAnalyze that have not settled yet

panelVars == <<loading, analysisPeriod, analysisData, analysisError, analysesInFlight>>

\* The panel as mounted
PanelIdle ==
    /\ loading = FALSE /\ analysisPeriod = "today" /\ analysisData = "null"
    /\ analysisError = "null" /\ analysesInFlight = 0

VARIABLES
    \* ---- one mounted useTodos hook (hooks/useTodos.ts 8-130) of user 1
    todoList,       \* useState<Todo[]>([]): the `todos` state
    todosLoading,   \* useState(true): the `loading` state
    todosError,     \* useState(null): the `error` state, "null" when unset
    todoFilters,    \* useState<TodoFilters>(initialFilters): the `filters` state
    fetches,        \* the fetchTodos calls awaiting getTodos, oldest first: their todoFilters
    toggles,        \* the toggleTodoComplete calls awaiting updateTodo: [id, completed]
    shownFor,       \* the todoFilters of the fetchTodos call whose data setTodos received last
    lastRead        \* how the getTodos of the last settled fetchTodos ended

hookVars == <<todoList, todosLoading, todosError, todoFilters, fetches, toggles, shownFor, lastRead>>

NoFilters == [status |-> "all", sortBy |-> "created_at", sortOrder |-> "desc"]

\* Lines 10-13: the hook as mounted with initialFilters = {}
HookIdle ==
    /\ todoList = <<>> /\ todosLoading = TRUE /\ todosError = "null" /\ todoFilters = NoFilters
    /\ fetches = <<>> /\ toggles = <<>> /\ shownFor = NoFilters /\ lastRead = "none"

VARIABLES
    \* ---- AuthProvider (unnamed/part_003) of one browser tab
    authUser,       \* useState<User | null>(null): the `user` state, 0 for null
    authLoading,    \* useState(true): the `loading` state
    pathname,       \* window.location.pathname
    initAuth,       \* "pending" while initializeAuth awaits getSession, then "done"
    authEvents      \* auth state changes not yet handed to the callback: [event, user]

authVars == <<authUser, authLoading, pathname, initAuth, authEvents>>

\* Lines 27-28: the provider as mounted, on the main page
AuthIdle ==
    /\ authUser = 0 /\ authLoading = TRUE /\ pathname = "/" /\ initAuth = "pending"
    /\ authEvents = <<>>

moreVars == <<todoVars, formVars, panelVars, hookVars, authVars>>

vars == <<textVars, envVars, parseVars, analyzeVars, moreVars>>

(***************************************************************************)
(* Program constants                                                       *)
(***************************************************************************)
INPUT_MIN_LENGTH == 2
INPUT_MAX_LENGTH == 500
TITLE_MIN_LENGTH == 2
TITLE_MAX_LENGTH == 100
DESCRIPTION_MAX_LENGTH == 500

(***************************************************************************)
(* Bounds of the model                                                     *)
(***************************************************************************)
MaxPieces == 4      \* text inputs are concatenations of at most this many pieces
MaxPad == 2         \* title inputs carry up to this many blanks on each side
MaxDays == 8        \* the wall clock starts on one of this many consecutive days
MaxTotal == 8       \* the uniform task lists hold at most this many tasks
MaxMarkers == 2     \* an error message holds at most this many of the markers
MaxRows == 2        \* the store hands out at most this many primary keys
MaxKinds == 2       \* the mixed task lists hold at most this many kinds of task

(***************************************************************************)
(* Code units                                                              *)
(***************************************************************************)
U ==
    [ sp |-> 32,            \* ' '
      nl |-> 10,            \* '\n'
      tab |-> 9,
      ideoSp |-> 12288,     \* U+3000 IDEOGRAPHIC SPACE
      bang |-> 33,          \* '!'
      dot |-> 46,           \* '.'
      a |-> 97,             \* 'a'
      one |-> 49,           \* '1'
      five |-> 53,          \* '5'
      ga |-> 44032,         \* U+AC00 HANGUL SYLLABLE GA
      mid |-> 20013,        \* U+4E2D
      hiraA |-> 12354,      \* U+3042 HIRAGANA LETTER A
      kanaDot |-> 12539,    \* U+30FB KATAKANA MIDDLE DOT: punctuation inside the kana block
      emojiHi |-> 55357,    \* U+D83D, high surrogate of U+1F600
      emojiLo |-> 56832,    \* U+DE00, low surrogate of U+1F600
      vs16 |-> 65039,       \* U+FE0F VARIATION SELECTOR-16
      keycap |-> 8419,      \* U+20E3 COMBINING ENCLOSING KEYCAP
      colon |-> 58 ]        \* ':'

\* The set matched by \s, which is also what String.prototype.trim strips.
IsWhiteSpace(c) ==
    \/ c \in {9, 10, 11, 12, 13, 32, 160, 5760, 8232, 8233, 8239, 8287, 12288, 65279}
    \/ (c >= 8192 /\ c <= 8202)

Rep(piece, n) == [i \in 1..(n * Len(piece)) |-> piece[((i - 1) % Len(piece)) + 1]]

Drop(s) == SelectSeq(s, LAMBDA x : x /= -1)

\* String.prototype.trim
Trim(s) ==
    IF \A i \in 1..Len(s) : IsWhiteSpace(s[i]) THEN <<>>
    ELSE LET lo == CHOOSE i \in 1..Len(s) :
                        ~IsWhiteSpace(s[i]) /\ \A j \in 1..(i - 1) : IsWhiteSpace(s[j])
             hi == CHOOSE i \in 1..Len(s) :
                        ~IsWhiteSpace(s[i]) /\ \A j \in (i + 1)..Len(s) : IsWhiteSpace(s[j])
         IN  SubSeq(s, lo, hi)

\* Mutant of CollapseWhiteSpace: s.replace(/\s\s/g, ' '), which halves a run instead
\* of collapsing it.
CollapseWhiteSpacePairs(s) ==
    LET runPos(i) == i - CHOOSE k \in 0..(i - 1) :
                            /\ (k = 0 \/ ~IsWhiteSpace(s[k]))
                            /\ \A j \in (k + 1)..i : IsWhiteSpace(s[j])
    IN  Drop([i \in 1..Len(s) |->
                IF ~IsWhiteSpace(s[i]) THEN s[i]
                ELSE IF runPos(i) % 2 = 0 THEN -1
                ELSE IF i < Len(s) /\ IsWhiteSpace(s[i + 1]) THEN U.sp
                ELSE s[i]])

\* s.replace(/\s+/g, ' ')
CollapseWhiteSpace(s) ==
    Drop([i \in 1..Len(s) |->
            IF ~IsWhiteSpace(s[i]) THEN s[i]
            ELSE IF i = 1 \/ ~IsWhiteSpace(s[i - 1]) THEN U.sp ELSE -1])

\* s.replace(/\n+/g, '\n')
CollapseNewlines(s) ==
    Drop([i \in 1..Len(s) |->
            IF s[i] /= U.nl THEN s[i]
            ELSE IF i = 1 \/ s[i - 1] /= U.nl THEN U.nl ELSE -1])

preprocessInput(input) == CollapseNewlines(CollapseWhiteSpace(Trim(input)))

InRange(c, lo, hi) == c >= lo /\ c <= hi
hasKorean(s) == \E i \in 1..Len(s) : InRange(s[i], 12593, 12686) \/ InRange(s[i], 44032, 55203)
hasAlphabetic(s) == \E i \in 1..Len(s) : InRange(s[i], 97, 122) \/ InRange(s[i], 65, 90)
hasNumeric(s) == \E i \in 1..Len(s) : InRange(s[i], 48, 57)
hasChinese(s) == \E i \in 1..Len(s) : InRange(s[i], 19968, 40959)
hasJapanese(s) == \E i \in 1..Len(s) : InRange(s[i], 12352, 12447) \/ InRange(s[i], 12448, 12543)
\* Mutant of hasMeaningfulText: any character at all counts as text.
hasAnyText(s) == Len(s) > 0

hasMeaningfulText(s) ==
    hasKorean(s) \/ hasAlphabetic(s) \/ hasNumeric(s) \/ hasChinese(s) \/ hasJapanese(s)

NoVerdict == [valid |-> FALSE, error |-> "none", len |-> 0]
Valid == [valid |-> TRUE, error |-> "ok", len |-> 0]
Invalid(reason, n) == [valid |-> FALSE, error |-> reason, len |-> n]

\* The length is part of the TooLong message only.
validateInput(input) ==
    IF Len(input) = 0 THEN Invalid("EmptyInput", 0)
    ELSE IF Len(input) < INPUT_MIN_LENGTH THEN Invalid("TooShort", 0)
    ELSE IF Len(input) > INPUT_MAX_LENGTH THEN Invalid("TooLong", Len(input))
    ELSE IF ~hasMeaningfulText(input) THEN Invalid("NoMeaningfulText", 0)
    ELSE Valid

Placeholder == <<49352, 32, 54624, 32, 51068>>     \* '새 할 일'
Ellipsis == <<U.dot, U.dot, U.dot>>
NoTitle == <<-1>>

\* Mutant of postprocessTitle: the cut leaves no room for the ellipsis.
postprocessTitleNoRoom(t) ==
    LET trimmed == Trim(t)
        p1 == IF Len(trimmed) < TITLE_MIN_LENGTH THEN Placeholder ELSE trimmed
    IN  IF Len(p1) > TITLE_MAX_LENGTH
        THEN SubSeq(p1, 1, TITLE_MAX_LENGTH) \o Ellipsis
        ELSE p1

postprocessTitle(t) ==
    LET trimmed == Trim(t)
        p1 == IF Len(trimmed) < TITLE_MIN_LENGTH THEN Placeholder ELSE trimmed
    IN  IF Len(p1) > TITLE_MAX_LENGTH
        THEN SubSeq(p1, 1, TITLE_MAX_LENGTH - 3) \o Ellipsis
        ELSE p1

postprocessDescription(d) ==
    IF d = <<>> THEN <<>>
    ELSE LET trimmed == Trim(d)
         IN  IF Len(trimmed) > DESCRIPTION_MAX_LENGTH
             THEN SubSeq(trimmed, 1, DESCRIPTION_MAX_LENGTH - 3) \o Ellipsis
             ELSE trimmed

(***************************************************************************)
(* Inputs of the text helpers                                              *)
(***************************************************************************)
Pieces == {<<U.sp>>, <<U.nl>>, <<U.bang>>, <<U.a>>, <<U.kanaDot>>, <<U.emojiHi, U.emojiLo>>}

RECURSIVE Composed(_)
Composed(n) ==
    IF n = 0 THEN {<<>>}
    ELSE LET shorter == Composed(n - 1)
         IN  shorter \cup {s \o p : s \in shorter, p \in Pieces}

ScriptSamples ==
    { <<U.ga, U.ga>>, <<U.mid, U.bang>>, <<U.hiraA, U.sp, U.hiraA>>, <<U.five, U.five>>,
      <<U.one, U.vs16, U.keycap, U.one, U.vs16, U.keycap>>, <<U.ideoSp, U.bang, U.bang, U.ideoSp>>, <<U.tab, U.a, U.tab, U.tab, U.a>> }

LongSamples ==
    { Rep(p, n) : p \in {<<U.bang>>, <<U.a>>, <<U.emojiHi, U.emojiLo>>},
                  n \in {INPUT_MAX_LENGTH \div 2, INPUT_MAX_LENGTH - 1, INPUT_MAX_LENGTH,
                         INPUT_MAX_LENGTH + 1} }
    \cup { <<U.a>> \o Rep(<<U.sp>>, INPUT_MAX_LENGTH) \o <<U.a>>,
           Rep(<<U.sp>>, INPUT_MAX_LENGTH + 1) }

TextInputs == Composed(MaxPieces) \cup ScriptSamples \cup LongSamples

\* A title body whose i-th unit differs from its neighbours, so that a cut is visible.
Body(n) == [i \in 1..n |-> U.a + (i % 26)]

TitleInputs ==
    { Rep(<<U.sp>>, l) \o Body(n) \o Rep(<<U.nl>>, r) :
        l \in 0..MaxPad, r \in 0..MaxPad,
        n \in {0, 1, 2, 3, TITLE_MAX_LENGTH - 1, TITLE_MAX_LENGTH, TITLE_MAX_LENGTH + 1, 150} }
    \cup { <<U.a, U.sp, U.sp, U.a>>, Body(98) \o <<U.sp, U.sp, U.sp, U.a>> }

(***************************************************************************)
(* The text helpers as a state machine                                     *)
(***************************************************************************)
InitText ==
    /\ TodoIdle
    /\ FormIdle
    /\ PanelIdle
    /\ HookIdle
    /\ AuthIdle
    /\ tz = 0 /\ clock = [d |-> 0, ms |-> 0] /\ apiKey = FALSE
    /\ pPc = "idle" /\ pBody = [kind |-> "malformed", input |-> <<>>] /\ pDates = [today |-> [fmt |-> "text", y |-> 0, m |-> 0, d |-> 0], at |-> [d |-> -1, ms |-> -1]]
    /\ pNow = [d |-> -1, ms |-> -1]
    /\ pParsed = [ title |-> <<-1>>, description |-> <<>>,
                   due_date |-> [fmt |-> "text", y |-> 0, m |-> 0, d |-> 0], due_time |-> <<>>,
                   priority |-> "none", category |-> "none" ] /\ pFixed = [due_date |-> [fmt |-> "text", y |-> 0, m |-> 0, d |-> 0], due_time |-> <<>>]
    /\ pGen = 0 /\ pResp = [status |-> 0, success |-> FALSE, error |-> "none", len |-> 0]
    /\ pErr = [thrown |-> FALSE, markers |-> {}]
    /\ store = <<>> /\ aPc = "idle" /\ aBody = [kind |-> "malformed", period |-> "none"]
    /\ aUser = 0 /\ aRange = [start |-> [d |-> -1, ms |-> -1], end |-> [d |-> -1, ms |-> -1]]
    /\ aFiltered = <<>> /\ aNow = [d |-> -1, ms |-> -1] /\ aStats = [totalCount |-> -1]
    /\ aGen = 0 /\ aText = <<[kind |-> "none", json |-> [summary |-> "none"]]>>
    /\ aErr = [thrown |-> FALSE, markers |-> {}]
    /\ aResp = [status |-> 0, success |-> FALSE, error |-> "none", len |-> 0]
    /\ prevText = <<>>
    /\ nPre = 0
    /\ verdict = NoVerdict
    /\ titleOut = NoTitle
    /\ \/ job = "text" /\ rawInput \in TextInputs /\ text = rawInput /\ title = <<>>
       \/ job = "title" /\ title \in TitleInputs /\ rawInput = <<>> /\ text = <<>>

\* processedInput = preprocessInput(input)
PreprocessInput ==
    /\ job = "text"
    /\ nPre < 2
    /\ verdict = NoVerdict
    /\ prevText' = text
    /\ text' = preprocessInput(text)
    /\ nPre' = nPre + 1
    /\ UNCHANGED <<job, rawInput, verdict, title, titleOut>>
    /\ UNCHANGED <<envVars, parseVars, analyzeVars, moreVars>>

\* validation = validateInput(processedInput)
ValidateInput ==
    /\ job = "text"
    /\ nPre >= 1
    /\ verdict = NoVerdict
    /\ verdict' = validateInput(text)
    /\ UNCHANGED <<job, rawInput, text, prevText, nPre, title, titleOut>>
    /\ UNCHANGED <<envVars, parseVars, analyzeVars, moreVars>>

PostprocessTitle ==
    /\ job = "title"
    /\ titleOut = NoTitle
    /\ titleOut' = postprocessTitle(title)
    /\ UNCHANGED <<job, rawInput, text, prevText, nPre, verdict, title>>
    /\ UNCHANGED <<envVars, parseVars, analyzeVars, moreVars>>

NextText == PreprocessInput \/ ValidateInput \/ PostprocessTitle

SpecText == InitText /\ [][NextText]_vars

(***************************************************************************)
(* Calendar: what the Date built-in does for the source                    *)
(***************************************************************************)
MsPerDay == 24 * 60 * 60 * 1000
NaN == [d |-> -1, ms |-> -1]        \* an Invalid Date

\* Day number of the civil date y-m-d (MakeDay): new Date(y, m - 1, d), Date.parse
DaysFromCivil(y, m, d) ==
    LET yy == IF m <= 2 THEN y - 1 ELSE y
        era == yy \div 400
        yoe == yy - era * 400
        mp == IF m > 2 THEN m - 3 ELSE m + 9
        doy == ((153 * mp + 2) \div 5) + d - 1
        doe == yoe * 365 + (yoe \div 4) - (yoe \div 100) + doy
    IN  era * 146097 + doe - 719468

\* getFullYear / getMonth + 1 / getDate of a day number
CivilFromDays(z) ==
    LET zz == z + 719468
        era == zz \div 146097
        doe == zz - era * 146097
        yoe == (doe - (doe \div 1460) + (doe \div 36524) - (doe \div 146096)) \div 365
        doy == doe - (365 * yoe + (yoe \div 4) - (yoe \div 100))
        mp == (5 * doy + 2) \div 153
        dd == doy - ((153 * mp + 2) \div 5) + 1
        mm == IF mp < 10 THEN mp + 3 ELSE mp - 9
    IN  [y |-> yoe + era * 400 + (IF mm <= 2 THEN 1 ELSE 0), m |-> mm, d |-> dd]

\* getDay: 0 = Sunday; 1970-01-01 was a Thursday
WeekDay(z) == (z + 4) % 7

\* The instant k milliseconds after i, |k| at most one day
AddMs(i, k) ==
    LET t == i.ms + k
    IN  IF t >= MsPerDay THEN [d |-> i.d + 1, ms |-> t - MsPerDay]
        ELSE IF t < 0 THEN [d |-> i.d - 1, ms |-> t + MsPerDay]
        ELSE [d |-> i.d, ms |-> t]

Before(a, b) == a.d < b.d \/ (a.d = b.d /\ a.ms < b.ms)

\* The local wall-clock reading of instant i, and the instant of a local reading
ToLocal(i) == AddMs(i, tz * 60000)
FromLocal(l) == AddMs(l, -(tz * 60000))
\* new Date(x.getFullYear(), x.getMonth(), x.getDate()) as a local day number
LocalDay(i) == ToLocal(i).d

(***************************************************************************)
(* getDateHelpers                                                          *)
(***************************************************************************)
\* A date string: "YYYY-MM-DD" (fmt "ymd"), "YYYY/MM/DD" (fmt "slash"), or a text that
\* is no date at all (fmt "text").
DateStr(f, y, m, d) == [fmt |-> f, y |-> y, m |-> m, d |-> d]
NoDateText == DateStr("text", 0, 0, 0)

formatDate(day) == LET c == CivilFromDays(day) IN DateStr("ymd", c.y, c.m, c.d)

\* Mutant of getCurrentWeekDay: the target day itself is pushed a week ahead.
getCurrentWeekDayStrict(today, targetDay) ==
    LET diff == targetDay - WeekDay(today)
    IN  today + (IF diff > 0 THEN diff ELSE 7 + diff)

getCurrentWeekDay(today, targetDay) ==
    LET diff == targetDay - WeekDay(today)
    IN  today + (IF diff >= 0 THEN diff ELSE 7 + diff)

getNextWeekDay(today, targetDay) == getCurrentWeekDay(today, targetDay) + 7

NoDates == [today |-> NoDateText, at |-> NaN]

getDateHelpers(now) ==
    LET today == LocalDay(now)
        c == CivilFromDays(today)
    IN  [ today |-> formatDate(today),
          tomorrow |-> formatDate(today + 1),
          dayAfterTomorrow |-> formatDate(today + 2),
          this |-> [w \in 0..6 |-> formatDate(getCurrentWeekDay(today, w))],
          next |-> [w \in 0..6 |-> formatDate(getNextWeekDay(today, w))],
          currentDayOfWeek |-> WeekDay(today),
          currentYear |-> c.y, currentMonth |-> c.m, currentDate |-> c.d,
          at |-> now ]       \* the instant this call read (kept for reference only)

(***************************************************************************)
(* normalize-task: post-processing of result.object                        *)
(***************************************************************************)
\* new Date(parsedData.due_date): a date-only ISO string is UTC midnight, any other
\* form the engine accepts is local midnight, anything else is an Invalid Date.
ParseDate(ds) ==
    IF ds.fmt = "text" \/ ds.m < 1 \/ ds.m > 12 \/ ds.d < 1 \/ ds.d > 31 THEN NaN
    ELSE IF ds.fmt = "ymd" THEN [d |-> DaysFromCivil(ds.y, ds.m, ds.d), ms |-> 0]
    ELSE FromLocal([d |-> DaysFromCivil(ds.y, ds.m, ds.d), ms |-> 0])

IsDigit(c) == c >= 48 /\ c <= 57
Hm(h, m) == <<48 + (h \div 10), 48 + (h % 10), U.colon, 48 + (m \div 10), 48 + (m % 10)>>

\* Mutant of timeRegex: /^([01][0-9]|2[0-3]):[0-5][0-9]$/, two-digit hours only.
timeRegexStrict(t) ==
    /\ Len(t) = 5
    /\ \/ t[1] \in {48, 49} /\ IsDigit(t[2])
       \/ t[1] = 50 /\ t[2] >= 48 /\ t[2] <= 51
    /\ t[3] = U.colon
    /\ t[4] >= 48 /\ t[4] <= 53
    /\ IsDigit(t[5])

\* timeRegex.test(t) for /^([01]?[0-9]|2[0-3]):[0-5][0-9]$/
timeRegex(t) ==
    \/ /\ Len(t) = 5
       /\ \/ t[1] \in {48, 49} /\ IsDigit(t[2])
          \/ t[1] = 50 /\ t[2] >= 48 /\ t[2] <= 51
       /\ t[3] = U.colon
       /\ t[4] >= 48 /\ t[4] <= 53
       /\ IsDigit(t[5])
    \/ /\ Len(t) = 4
       /\ IsDigit(t[1])
       /\ t[2] = U.colon
       /\ t[3] >= 48 /\ t[3] <= 53
       /\ IsDigit(t[4])

DefaultTime == Hm(9, 0)

\* Mutant of CorrectDueDate: the date is overwritten when it is today as well, and the
\* correction resets the time.
CorrectDueDateEager(parsed, now, dates) ==
    IF LocalDay(ParseDate(parsed.due_date)) <= LocalDay(now)
    THEN [due_date |-> dates.today, due_time |-> DefaultTime]
    ELSE [due_date |-> parsed.due_date, due_time |-> parsed.due_time]

\* if (dueDateOnly < today) parsedData.due_date = dates.today
CorrectDueDate(parsed, now, dates) ==
    IF LocalDay(ParseDate(parsed.due_date)) < LocalDay(now)
    THEN [due_date |-> dates.today, due_time |-> parsed.due_time]
    ELSE [due_date |-> parsed.due_date, due_time |-> parsed.due_time]

\* if (!timeRegex.test(parsedData.due_time)) parsedData.due_time = '09:00'
CorrectDueTime(f) ==
    IF timeRegex(f.due_time) THEN f ELSE [f EXCEPT !.due_time = DefaultTime]

\* parseInt of the leading digits of a field of a time that passed timeRegex
ParseHours(t) == IF Len(t) = 5 THEN (t[1] - 48) * 10 + (t[2] - 48) ELSE t[1] - 48
ParseMinutes(t) == (t[Len(t) - 1] - 48) * 10 + (t[Len(t)] - 48)

\* new Date(year, month - 1, day, hours, minutes) from due_date.split('-') and
\* due_time.split(':'): a string without dashes leaves month and day undefined.
CombineDateTime(f) ==
    IF f.due_date.fmt /= "ymd" THEN NaN
    ELSE FromLocal([ d |-> DaysFromCivil(f.due_date.y, f.due_date.m, f.due_date.d),
                     ms |-> (ParseHours(f.due_time) * 60 + ParseMinutes(f.due_time)) * 60000 ])

\* The status the catch block answers for an exception whose message holds `markers`
ParseTodoCatch(markers, name) ==
    IF markers \cap {"API key", "authentication"} /= {} THEN 401
    ELSE IF markers \cap {"quota", "limit", "429"} /= {} THEN 429
    ELSE IF markers \cap {"timeout", "ETIMEDOUT"} /= {} THEN 504
    ELSE IF markers \cap {"network", "ECONNREFUSED"} /= {} THEN 503
    ELSE 500

Failure(st, why) == [status |-> st, success |-> FALSE, error |-> why, len |-> 0]
Success(data) == [status |-> 200, success |-> TRUE, data |-> data]
NoResp == [status |-> 0, success |-> FALSE, error |-> "none", len |-> 0]
NoErr == [thrown |-> FALSE, markers |-> {}]
NoObject ==
    [ title |-> NoTitle, description |-> <<>>, due_date |-> NoDateText, due_time |-> <<>>,
      priority |-> "none", category |-> "none" ]
NoFixed == [due_date |-> NoDateText, due_time |-> <<>>]

\* Lines 516-590: the response for a schema-conforming object
PostProcess(parsed, fixed) ==
    IF ParseDate(parsed.due_date) = NaN THEN Failure(400, "InvalidExtractedDate")
    ELSE LET combined == CombineDateTime(fixed)
         IN  IF combined = NaN
             THEN Failure(ParseTodoCatch({"Invalid time value"}, "RangeError"), "Unexpected")
             ELSE Success([ title |-> postprocessTitle(parsed.title),
                            description |-> postprocessDescription(parsed.description),
                            due_date |-> combined,
                            priority |-> parsed.priority,
                            category |-> parsed.category ])

(***************************************************************************)
(* Inputs of normalize-task                                                *)
(***************************************************************************)
BaseDay == DaysFromCivil(2024, 2, 26)       \* a Monday; the window holds a leap day
ClockDays == BaseDay..(BaseDay + MaxDays - 1)
ClockTimes == {0, MsPerDay \div 2, MsPerDay - 1}
ZoneOffsets == {-300, 0, 540}

BodyInputs ==
    { <<>>, <<U.sp, U.sp>>, <<U.bang>>, <<U.bang, U.bang>>,
      <<U.sp, U.ga, U.ga, U.sp, U.sp, U.a>>, Rep(<<U.a>>, INPUT_MAX_LENGTH + 1) }
\* A body is malformed JSON, the JSON value null, lacks `input`, holds a non-string
\* `input`, or holds a string.
Body0(k) == [kind |-> k, input |-> <<>>]
Bodies ==
    {Body0(k) : k \in {"malformed", "null", "missing", "nonstring"}}
    \cup {[kind |-> "string", input |-> x] : x \in BodyInputs}
\* if (!input || typeof input !== 'string')
IsUsableString(body) == body.kind = "string" /\ body.input /= <<>>

DueTimes ==
    { Hm(0, 0), Hm(9, 0), Hm(15, 30), Hm(19, 59), Hm(23, 59),
      <<57, U.colon, 48, 48>>, <<55, U.colon, 51, 48>>,                 \* "9:00" "7:30"
      Hm(25, 0), Hm(24, 0), Hm(9, 60), <<>>,
      <<57, U.colon, 53>>, <<48, 57, 48, 48>>,                        \* "9:5" "0900"
      Hm(9, 0) \o <<U.nl>>, <<U.sp>> \o Hm(9, 0), Hm(9, 0) \o <<U.colon, 48, 48>>,
      <<U.a, U.a, U.colon, U.a, U.a>> }

\* due_date strings around the day `today`
DueDates(today) ==
    { formatDate(today + k) : k \in {-1, 0, 1} }
    \cup { [formatDate(today + k) EXCEPT !.fmt = "slash"] : k \in {-1, 0, 1} }
    \cup { NoDateText, DateStr("ymd", 2024, 13, 1) }

TitlePairs ==
    { [title |-> <<U.a, U.sp, U.a>>, description |-> <<>>],
      [title |-> <<U.sp, U.a, U.sp>>, description |-> <<U.sp, U.a, U.a, U.sp>>],
      [title |-> Body(150), description |-> Rep(<<U.a>>, DESCRIPTION_MAX_LENGTH + 1)] }

Object(tp, dd, dt, pc) ==
    [ title |-> tp.title, description |-> tp.description,
      due_date |-> dd, due_time |-> dt, priority |-> pc[1], category |-> pc[2] ]
EnumPairs == {<<"medium", "work">>}

Markers ==
    { "API key", "authentication", "quota", "limit", "429", "timeout", "ETIMEDOUT",
      "network", "ECONNREFUSED", "JSON" }
\* err.message, as the set of the markers it contains: none, one or MaxMarkers of them
ErrorMessages == {ms \in SUBSET Markers : Cardinality(ms) <= MaxMarkers}

(***************************************************************************)
(* normalize-task as a state machine                                       *)
(***************************************************************************)
TextIdle ==
    /\ job = "none" /\ rawInput = <<>> /\ text = <<>> /\ prevText = <<>> /\ nPre = 0
    /\ verdict = NoVerdict /\ title = <<>> /\ titleOut = NoTitle

EnvInit ==
    /\ tz \in ZoneOffsets
    /\ clock \in [d : ClockDays, ms : ClockTimes]
    /\ apiKey \in BOOLEAN

ParseIdle ==
    /\ pPc = "idle" /\ pBody = [kind |-> "malformed", input |-> <<>>] /\ pDates = NoDates /\ pNow = NaN
    /\ pParsed = NoObject /\ pFixed = NoFixed /\ pGen = 0 /\ pErr = NoErr /\ pResp = NoResp

InitParse ==
    /\ TextIdle
    /\ TodoIdle
    /\ FormIdle
    /\ PanelIdle
    /\ HookIdle
    /\ AuthIdle
    /\ store = <<>> /\ aPc = "idle" /\ aBody = [kind |-> "malformed", period |-> "none"]
    /\ aUser = 0 /\ aRange = [start |-> NaN, end |-> NaN] /\ aFiltered = <<>> /\ aNow = NaN
    /\ aStats = [totalCount |-> -1] /\ aGen = 0 /\ aResp = NoResp
    /\ aText = <<[kind |-> "none", json |-> [summary |-> "none"]]>>
    /\ aErr = [thrown |-> FALSE, markers |-> {}]
    /\ EnvInit
    /\ pPc = "idle"
    /\ pBody \in Bodies
    /\ pDates = NoDates
    /\ pNow = NaN
    /\ pParsed = NoObject
    /\ pFixed = NoFixed
    /\ pGen = 0
    /\ pErr = NoErr
    /\ pResp = NoResp

Respond(r) ==
    /\ pPc' = "done"
    /\ pResp' = r

\* Lines 189-244: the request is refused before any date is computed
ParseTodoReject ==
    /\ pPc = "idle"
    /\ \/ /\ pBody.kind = "malformed"
          /\ Respond(Failure(400, "BadJson"))
       \/ /\ pBody.kind = "null"      \* const { input } = null throws a TypeError
          /\ Respond(Failure(ParseTodoCatch({}, "TypeError"), "Unexpected"))
       \/ /\ pBody.kind \notin {"malformed", "null"}
          /\ ~IsUsableString(pBody)
          /\ Respond(Failure(400, "NotString"))
       \/ /\ IsUsableString(pBody)
          /\ LET validation == validateInput(preprocessInput(pBody.input))
             IN  \/ /\ ~validation.valid
                    /\ Respond([Failure(400, validation.error) EXCEPT !.len = validation.len])
                 \/ /\ validation.valid
                    /\ ~apiKey
                    /\ Respond(Failure(500, "Config"))
    /\ UNCHANGED <<pBody, pDates, pNow, pParsed, pFixed, pGen, pErr>>
    /\ UNCHANGED <<textVars, envVars, analyzeVars, moreVars>>

\* Lines 189-254: a valid request reads the clock twice (getDateHelpers, then now) and
\* calls generateObject. The clock may move between the two reads.
ParseTodoCall ==
    /\ pPc = "idle"
    /\ IsUsableString(pBody)
    /\ validateInput(preprocessInput(pBody.input)).valid
    /\ apiKey
    /\ \E step \in {0, 1} :
          /\ pDates' = getDateHelpers(clock)
          /\ pNow' = AddMs(clock, step)
          /\ clock' = AddMs(clock, step)
    /\ pGen' = pGen + 1
    /\ pPc' = "generating"
    /\ UNCHANGED <<pBody, pParsed, pFixed, pErr, pResp, tz, apiKey>>
    /\ UNCHANGED <<textVars, analyzeVars, moreVars>>

\* Lines 592-669: generateObject throws
ParseTodoThrows ==
    /\ pPc = "generating"
    /\ \E markers \in ErrorMessages :
          /\ pErr' = [thrown |-> TRUE, markers |-> markers]
          /\ Respond(Failure(ParseTodoCatch(markers, "Error"), "Generation"))
    /\ UNCHANGED <<pBody, pDates, pNow, pParsed, pFixed, pGen>>
    /\ UNCHANGED <<textVars, envVars, analyzeVars, moreVars>>

\* Lines 506-590: generateObject returns a schema-conforming object, its titles and
\* due_time drawn from `titles` and `times`
ParseTodoReturnsAmong(titles, times) ==
    /\ pPc = "generating"
    /\ \E tp \in titles, dd \in DueDates(LocalDay(pNow)), dt \in times, pc \in EnumPairs :
          LET obj == Object(tp, dd, dt, pc)
              fixed == IF ParseDate(obj.due_date) = NaN THEN NoFixed
                       ELSE CorrectDueTime(CorrectDueDate(obj, pNow, pDates))
          IN  /\ pParsed' = obj
              /\ pFixed' = fixed
              /\ Respond(PostProcess(obj, fixed))
    /\ UNCHANGED <<pBody, pDates, pNow, pGen, pErr>>
    /\ UNCHANGED <<textVars, envVars, analyzeVars, moreVars>>

ParseTodoReturns == ParseTodoReturnsAmong(TitlePairs, DueTimes)

NextParse == ParseTodoReject \/ ParseTodoCall \/ ParseTodoThrows \/ ParseTodoReturns

SpecParse == InitParse /\ [][NextParse]_vars

(***************************************************************************)
(* analyze-tasks: getDateRange and the statistics                          *)
(***************************************************************************)
LastMs == MsPerDay - 1                     \* setHours(23, 59, 59, 999)
LocalAt(day, ms) == FromLocal([d |-> day, ms |-> ms])
AtOrAfter(a, b) == ~Before(a, b)
NoDue == NaN                               \* due_date is null

\* getDateRange without the Sunday case of `diff`
getDateRangeSundayFirst(period, now) ==
    LET today == LocalDay(now)
        dayOfWeek == WeekDay(today)
        diff == 1 - dayOfWeek
        weekStart == today + diff
    IN  IF period = "today"
        THEN [start |-> LocalAt(today, 0), end |-> LocalAt(today, LastMs)]
        ELSE [start |-> LocalAt(weekStart, 0), end |-> LocalAt(weekStart + 6, LastMs)]

\* Lines 24-46
getDateRange(period, now) ==
    LET today == LocalDay(now)
        dayOfWeek == WeekDay(today)
        diff == IF dayOfWeek = 0 THEN -6 ELSE 1 - dayOfWeek
        weekStart == today + diff
    IN  IF period = "today"
        THEN [start |-> LocalAt(today, 0), end |-> LocalAt(today, LastMs)]
        ELSE [start |-> LocalAt(weekStart, 0), end |-> LocalAt(weekStart + 6, LastMs)]

\* The filter with the end of the window left out
InRangeOfBeforeEnd(range, todo) ==
    /\ todo.due /= NoDue
    /\ AtOrAfter(todo.due, range.start)
    /\ Before(todo.due, range.end)

\* todos.filter(todo => due_date && dueDate >= start && dueDate <= end)
InRangeOf(range, todo) ==
    /\ todo.due /= NoDue
    /\ AtOrAfter(todo.due, range.start)
    /\ AtOrAfter(range.end, todo.due)

\* Mutant of toFixed1: the value is cut after the first decimal, not rounded.
toFixed1Truncating(num, den) ==
    LET tenths == (num * 1000) \div den
    IN  [int |-> tenths \div 10, frac |-> tenths % 10]

\* ((num / den) * 100).toFixed(1): the nearest number of tenths, the larger on a tie
toFixed1(num, den) ==
    LET tenths == (num * 2000 + den) \div (2 * den)
    IN  [int |-> tenths \div 10, frac |-> tenths % 10]

\* totalCount > 0 ? ((completedCount / totalCount) * 100).toFixed(1) : '0'
CompletionRate(completedCount, totalCount) ==
    IF totalCount > 0 THEN toFixed1(completedCount, totalCount) ELSE [int |-> 0, frac |-> -1]

\* The hour read in UTC: getUTCHours()
HourOfUtc(todo) == todo.due.ms \div 3600000

\* new Date(t.due_date).getHours()
HourOf(todo) == ToLocal(todo.due).ms \div 3600000

\* A reduce that counts every task of a category as completed
CategoryStatsCountingAll(todos) ==
    [c \in {todos[i].category : i \in 1..Len(todos)} |->
        [ total |-> Len(SelectSeq(todos, LAMBDA t : t.category = c)),
          completed |-> Len(SelectSeq(todos, LAMBDA t : t.category = c)) ]]

\* filteredTodos.reduce(...): per category, in order of first appearance
CategoryStats(todos) ==
    [c \in {todos[i].category : i \in 1..Len(todos)} |->
        [ total |-> Len(SelectSeq(todos, LAMBDA t : t.category = c)),
          completed |-> Len(SelectSeq(todos, LAMBDA t : t.category = c /\ t.completed)) ]]

NoStats == [totalCount |-> -1]

Stats(todos, now) ==
    LET totalCount == Len(todos)
        completedCount == Len(SelectSeq(todos, LAMBDA t : t.completed))
        byPriority(p) ==
            [ total |-> Len(SelectSeq(todos, LAMBDA t : t.priority = p)),
              completed |-> Len(SelectSeq(todos, LAMBDA t : t.priority = p /\ t.completed)) ]
    IN  [ totalCount |-> totalCount,
          completedCount |-> completedCount,
          pendingCount |-> totalCount - completedCount,
          completionRate |-> CompletionRate(completedCount, totalCount),
          high |-> byPriority("high"),
          medium |-> byPriority("medium"),
          low |-> byPriority("low"),
          categoryStats |-> CategoryStats(todos),
          overdueTasks |->
              Len(SelectSeq(todos, LAMBDA t : t.due /= NoDue /\ ~t.completed /\ Before(t.due, now))),
          todayTasks |->
              Len(SelectSeq(todos, LAMBDA t : t.due /= NoDue /\ LocalDay(t.due) = LocalDay(now))),
          morningTasks |->
              Len(SelectSeq(todos, LAMBDA t : t.due /= NoDue /\ HourOf(t) >= 6 /\ HourOf(t) < 12)),
          afternoonTasks |->
              Len(SelectSeq(todos, LAMBDA t : t.due /= NoDue /\ HourOf(t) >= 12 /\ HourOf(t) < 18)),
          eveningTasks |->
              Len(SelectSeq(todos, LAMBDA t : t.due /= NoDue /\ HourOf(t) >= 18 /\ HourOf(t) < 24)) ]

(***************************************************************************)
(* analyze-tasks: the three results                                        *)
(***************************************************************************)
\* A summary is a template with the values it interpolates.
Summary(tpl, period, total, completed, rate) ==
    [tpl |-> tpl, period |-> period, total |-> total, completed |-> completed, rate |-> rate]
NoRate == [int |-> 0, frac |-> -1]

\* Lines 119-127
CannedNoTodos ==
    [ summary |-> Summary("noTodosYet", "none", 0, 0, NoRate),
      urgentTasks |-> <<>>,
      insights |-> <<"addNewTodo">>,
      recommendations |-> <<"addAndManage">> ]

\* Lines 139-148
CannedNoneInPeriod(period) ==
    [ summary |-> Summary("nothingScheduled", period, 0, 0, NoRate),
      urgentTasks |-> <<>>,
      insights |-> <<"scheduleIsEmpty">>,
      recommendations |-> <<"planNewTodo">> ]

Proceed == [status |-> -1, success |-> TRUE, data |-> CannedNoTodos]

\* Mutant of ReadOutcome: the credential is checked before the rows are looked at.
ReadOutcomeKeyFirst(todos, filteredTodos, period, key) ==
    IF ~key THEN Failure(500, "Config")
    ELSE IF Len(todos) = 0 THEN Success(CannedNoTodos)
    ELSE IF Len(filteredTodos) = 0 THEN Success(CannedNoneInPeriod(period))
    ELSE Proceed

\* Lines 100-104: .from('todos').select('*').eq('user_id', user.id), newest first
QueryOwn(rows, uid) == SelectSeq(rows, LAMBDA t : t.user_id = uid)

\* Lines 117-162: what the rows read decide, or Proceed when the generation call is next
ReadOutcome(todos, filteredTodos, period, key) ==
    IF Len(todos) = 0 THEN Success(CannedNoTodos)
    ELSE IF Len(filteredTodos) = 0 THEN Success(CannedNoneInPeriod(period))
    ELSE IF ~key THEN Failure(500, "Config")
    ELSE Proceed

Take(seq, n) == SubSeq(seq, 1, IF Len(seq) < n THEN Len(seq) ELSE n)
Titles(seq) == [i \in 1..Len(seq) |-> seq[i].title]

\* Mutant of UrgentTitles: the list is not cut to five.
UrgentTitlesUncut(todos) ==
    Titles(SelectSeq(todos, LAMBDA t : ~t.completed /\ t.priority = "high"))

\* filteredTodos.filter(t => !t.completed && t.priority === '높음').slice(0, 5).map(t => t.title)
UrgentTitles(todos) ==
    Titles(Take(SelectSeq(todos, LAMBDA t : ~t.completed /\ t.priority = "high"), 5))

\* Lines 407-424
Fallback(period, todos, stats) ==
    [ summary |-> Summary("fallback", period, stats.totalCount, stats.completedCount,
                          stats.completionRate),
      urgentTasks |-> UrgentTitles(todos),
      insights |-> << [tpl |-> "rateIs", value |-> stats.completionRate],
                      [tpl |-> "remaining", value |-> stats.totalCount - stats.completedCount] >>,
      recommendations |-> <<"highPriorityFirst", "smallStepsFirst">> ]

\* result.text is a sequence of tokens: "fenceJson" (```json), "fence" (```), "fenceJs"
\* (``` followed by another language tag), "ws", "prose", or the text of a JSON value.
NoJson == [summary |-> "none"]
Tok(k) == [kind |-> k, json |-> NoJson]
Json(v) == [kind |-> "json", json |-> v]
IsJson(tok) == tok.kind = "json"

\* text.trim().replace(/```json\n?/g, '').replace(/```\n?/g, ''): the language tag of
\* any other fence stays behind as text.
StripFences(tokens) ==
    LET stripped == [i \in 1..Len(tokens) |->
                        IF tokens[i].kind \in {"fenceJson", "fence"} THEN Tok("gone")
                        ELSE IF tokens[i].kind = "fenceJs" THEN Tok("prose")
                        ELSE tokens[i]]
    IN  SelectSeq(stripped, LAMBDA tok : tok.kind /= "gone")

\* JSON.parse: one value, surrounded by nothing but whitespace
ParseFailed == NoJson
JsonParse(tokens) ==
    LET solid == SelectSeq(tokens, LAMBDA tok : tok.kind /= "ws")
    IN  IF Len(solid) = 1 /\ IsJson(solid[1]) THEN solid[1].json ELSE ParseFailed

\* Mutant of ResolveAnalysis: a response that cannot be parsed is an error.
ResolveAnalysisStrict(tokens, period, todos, stats) ==
    LET parsed == JsonParse(StripFences(tokens))
    IN  IF parsed = ParseFailed THEN Failure(500, "Analysis") ELSE Success(parsed)

\* Lines 394-446
ResolveAnalysis(tokens, period, todos, stats) ==
    LET parsed == JsonParse(StripFences(tokens))
    IN  IF parsed = ParseFailed THEN Success(Fallback(period, todos, stats))
        ELSE Success(parsed)

\* Lines 448-479
AnalyzeCatch(markers) ==
    IF markers \cap {"quota", "limit"} /= {} THEN 429 ELSE 500

(***************************************************************************)
(* Inputs of analyze-tasks                                                 *)
(***************************************************************************)
Todo(u, t, due, prio, cat, done) ==
    [ user_id |-> u, title |-> t, due |-> due, priority |-> prio, category |-> cat,
      completed |-> done ]

\* t tasks of user 1 due at noon of `day`, all of high priority, the first c completed
Uniform(day, c, t) ==
    [i \in 1..t |-> Todo(1, i, LocalAt(day, MsPerDay \div 2), "high", "work", i <= c)]

\* The kinds of task the mixed lists are made of, around the local day `day`
Kind(day) ==
    << Todo(1, 11, NoDue, "high", "work", FALSE),
       Todo(1, 12, LocalAt(day - 1, 10 * 3600000), "medium", "personal", FALSE),
       Todo(1, 13, LocalAt(day, 3 * 3600000), "low", "study", TRUE),
       Todo(1, 14, LocalAt(day, 20 * 3600000), "high", "work", FALSE),
       Todo(1, 15, LocalAt(day, LastMs), "medium", "study", TRUE),
       Todo(1, 16, LocalAt(day + 1, 0), "high", "personal", FALSE),
       Todo(2, 17, LocalAt(day, MsPerDay \div 2), "high", "work", FALSE) >>

\* The kinds numbered in `ks`, in ascending order
Mixed(day, ks) ==
    SelectSeq(Kind(day), LAMBDA t : (t.title - 10) \in ks)

TodoLists(day) ==
    { Uniform(day, c, t) : c \in 0..MaxTotal, t \in 1..MaxTotal }
    \cup { Mixed(day, ks) : ks \in {x \in SUBSET (1..7) : Cardinality(x) <= MaxKinds} }

AnalysisTimes == {MsPerDay \div 2, LastMs}

GoodAnalysis ==
    [ summary |-> Summary("model", "none", 0, 0, NoRate),
      urgentTasks |-> <<1, 2>>,
      insights |-> <<"i1", "i2", "i3">>,
      recommendations |-> <<"r1", "r2", "r3">> ]
\* A JSON object the prompt did not ask for: seven urgent tasks, one insight
OddAnalysis ==
    [ summary |-> Summary("model", "none", 0, 0, NoRate),
      urgentTasks |-> <<1, 2, 3, 4, 5, 6, 7>>,
      insights |-> <<"i1">>,
      recommendations |-> <<>> ]

ModelTexts ==
    { <<Json(GoodAnalysis)>>,
      <<Tok("fenceJson"), Json(GoodAnalysis), Tok("ws"), Tok("fence")>>,
      <<Json(OddAnalysis)>>,
      <<Tok("prose")>>,
      <<Tok("prose"), Tok("ws"), Json(GoodAnalysis)>>,
      <<Tok("fenceJs"), Json(GoodAnalysis), Tok("ws"), Tok("fence")>>,
      <<>> }

\* err.message of an exception of generateText, as the set of the markers it contains
AnalyzeMessages ==
    {ms \in SUBSET {"quota", "limit", "timeout", "network"} : Cardinality(ms) <= MaxMarkers}

AnalyzeBodies ==
    { [kind |-> "malformed", period |-> "none"], [kind |-> "null", period |-> "missing"],
      [kind |-> "object", period |-> "missing"],
      [kind |-> "object", period |-> "month"], [kind |-> "object", period |-> "today"],
      [kind |-> "object", period |-> "week"] }

(***************************************************************************)
(* analyze-tasks as a state machine                                        *)
(***************************************************************************)
NoRange == [start |-> NaN, end |-> NaN]
NoText == <<Tok("none")>>

AnalyzeIdle ==
    /\ store = <<>> /\ aPc = "idle" /\ aBody = [kind |-> "malformed", period |-> "none"]
    /\ aUser = 0 /\ aRange = NoRange /\ aFiltered = <<>> /\ aNow = NaN
    /\ aStats = NoStats /\ aGen = 0 /\ aText = NoText /\ aErr = NoErr /\ aResp = NoResp

InitAnalyze ==
    /\ TextIdle
    /\ TodoIdle
    /\ FormIdle
    /\ PanelIdle
    /\ HookIdle
    /\ AuthIdle
    /\ ParseIdle
    /\ tz \in ZoneOffsets
    /\ clock \in [d : ClockDays, ms : AnalysisTimes]
    /\ apiKey \in BOOLEAN
    /\ aBody \in AnalyzeBodies
    /\ aUser \in {0, 1}
    /\ IF aBody.period \in {"today", "week"} /\ aUser /= 0 /\ apiKey
       THEN store \in TodoLists(LocalDay(clock)) \cup {<<>>}
       ELSE store \in {<<>>, Uniform(LocalDay(clock), 0, 1), Mixed(LocalDay(clock), {1, 6})}
    /\ aPc = "idle"
    /\ aRange = NoRange
    /\ aFiltered = <<>>
    /\ aNow = NaN
    /\ aStats = NoStats
    /\ aGen = 0
    /\ aText = NoText
    /\ aErr = NoErr
    /\ aResp = NoResp

AnswerAnalyze(r) ==
    /\ aPc' = "done"
    /\ aResp' = r

ValidPeriod(body) == body.kind = "object" /\ body.period \in {"today", "week"}

\* Lines 53-94: the body, the period and the caller are checked
AnalyzeReject ==
    /\ aPc = "idle"
    /\ \/ /\ aBody.kind = "malformed"
          /\ AnswerAnalyze(Failure(400, "BadJson"))
       \/ /\ aBody.kind = "null"      \* const { period } = null throws a TypeError
          /\ AnswerAnalyze(Failure(AnalyzeCatch({}), "Unexpected"))
       \/ /\ aBody.kind \notin {"malformed", "null"}
          /\ ~ValidPeriod(aBody)
          /\ AnswerAnalyze(Failure(400, "BadPeriod"))
       \/ /\ ValidPeriod(aBody)
          /\ aUser = 0
          /\ AnswerAnalyze(Failure(401, "LoginRequired"))
    /\ UNCHANGED <<store, aBody, aUser, aRange, aFiltered, aNow, aStats, aGen, aText, aErr>>
    /\ UNCHANGED <<textVars, envVars, parseVars, moreVars>>

\* Lines 96-104: the window is computed and the read of the caller's rows is issued
AnalyzeQuery ==
    /\ aPc = "idle"
    /\ ValidPeriod(aBody)
    /\ aUser /= 0
    /\ aRange' = getDateRange(aBody.period, clock)
    /\ aPc' = "reading"
    /\ UNCHANGED <<store, aBody, aUser, aFiltered, aNow, aStats, aGen, aText, aErr, aResp>>
    /\ UNCHANGED <<textVars, envVars, parseVars, moreVars>>

\* Time passes while the request awaits the store or the generation service.
ClockAdvance ==
    /\ aPc = "reading"
    /\ clock.ms = LastMs
    /\ clock' = AddMs(clock, 1)
    /\ UNCHANGED <<tz, apiKey>>
    /\ UNCHANGED <<textVars, parseVars, analyzeVars, moreVars>>

\* Lines 106-115: the read fails
AnalyzeReadFails ==
    /\ aPc = "reading"
    /\ AnswerAnalyze(Failure(500, "StoreRead"))
    /\ UNCHANGED <<store, aBody, aUser, aRange, aFiltered, aNow, aStats, aGen, aText, aErr>>
    /\ UNCHANGED <<textVars, envVars, parseVars, moreVars>>

\* Lines 117-162: the read returns the caller's rows, and no generation call follows
AnalyzeReadShortCircuits ==
    /\ aPc = "reading"
    /\ LET todos == QueryOwn(store, aUser)
           filteredTodos == SelectSeq(todos, LAMBDA t : InRangeOf(aRange, t))
           outcome == ReadOutcome(todos, filteredTodos, aBody.period, apiKey)
       IN  /\ outcome /= Proceed
           /\ aFiltered' = filteredTodos
           /\ AnswerAnalyze(outcome)
    /\ UNCHANGED <<store, aBody, aUser, aRange, aNow, aStats, aGen, aText, aErr>>
    /\ UNCHANGED <<textVars, envVars, parseVars, moreVars>>

\* Lines 117-392: the read returns the caller's rows, some are in the window, the
\* statistics are computed and generateText is called
AnalyzeReadCalls ==
    /\ aPc = "reading"
    /\ LET todos == QueryOwn(store, aUser)
           filteredTodos == SelectSeq(todos, LAMBDA t : InRangeOf(aRange, t))
       IN  /\ ReadOutcome(todos, filteredTodos, aBody.period, apiKey) = Proceed
           /\ aFiltered' = filteredTodos
           /\ aNow' = clock
           /\ aStats' = Stats(filteredTodos, clock)
    /\ aGen' = aGen + 1
    /\ aPc' = "generating"
    /\ UNCHANGED <<store, aBody, aUser, aRange, aText, aErr, aResp>>
    /\ UNCHANGED <<textVars, envVars, parseVars, moreVars>>

\* Lines 448-479: generateText throws
AnalyzeThrows ==
    /\ aPc = "generating"
    /\ \E markers \in AnalyzeMessages :
          /\ aErr' = [thrown |-> TRUE, markers |-> markers]
          /\ AnswerAnalyze(Failure(AnalyzeCatch(markers), "Generation"))
    /\ UNCHANGED <<store, aBody, aUser, aRange, aFiltered, aNow, aStats, aGen, aText>>
    /\ UNCHANGED <<textVars, envVars, parseVars, moreVars>>

\* Lines 394-446: generateText returns a text
AnalyzeReturns ==
    /\ aPc = "generating"
    /\ \E tokens \in ModelTexts :
          /\ aText' = tokens
          /\ AnswerAnalyze(ResolveAnalysis(tokens, aBody.period, aFiltered, aStats))
    /\ UNCHANGED <<store, aBody, aUser, aRange, aFiltered, aNow, aStats, aGen, aErr>>
    /\ UNCHANGED <<textVars, envVars, parseVars, moreVars>>

NextAnalyze ==
    \/ AnalyzeReject
    \/ AnalyzeQuery
    \/ ClockAdvance
    \/ AnalyzeReadFails
    \/ AnalyzeReadShortCircuits
    \/ AnalyzeReadCalls
    \/ AnalyzeThrows
    \/ AnalyzeReturns

SpecAnalyze == InitAnalyze /\ [][NextAnalyze]_vars

(***************************************************************************)
(* The record store: table public.todos and its policies                   *)
(* (migration_v1_to_v2.sql), as the requests of supabase-js see it         *)
(***************************************************************************)
\* CHECK (priority IN ('높음', '중간', '낮음'))
PriorityCheck(row) == row.priority \in {"high", "medium", "low"}
\* CHECK (category IN ('업무', '개인', '학습'))
CategoryCheck(row) == row.category \in {"work", "personal", "study"}
\* Row level security: USING / WITH CHECK (auth.uid() = user_id); jwt 0 is no session
RowPolicy(jwt, row) == jwt /= 0 /\ jwt = row.user_id

NoRow ==
    [ id |-> 0, user_id |-> 0, title |-> 0, due |-> NoDue, priority |-> "none",
      category |-> "none", completed |-> FALSE ]
NoData == [field |-> "none", value |-> "none"]

\* .update(todoData) on one row: the fields todoData holds replace the row's
ApplyUpdate(row, data) ==
    IF data.field = "completed" THEN [row EXCEPT !.completed = (data.value = "true")]
    ELSE IF data.field = "category" THEN [row EXCEPT !.category = data.value]
    ELSE row

\* The status filters of getTodos (lines 207-222)
StatusFilter(status, row, now) ==
    CASE status = "completed" -> row.completed
      [] status = "pending" -> ~row.completed
      [] status = "overdue" -> ~row.completed /\ row.due /= NoDue /\ Before(row.due, now)
      [] OTHER -> TRUE

\* The rows a request addresses: those its session may see and its filters select
Matches(req, jwt, now, row) ==
    /\ RowPolicy(jwt, row)
    /\ req.eqUser = 0 \/ row.user_id = req.eqUser
    /\ req.eqId = 0 \/ row.id = req.eqId
    /\ StatusFilter(req.status, row, now)

Reverse(seq) == [i \in 1..Len(seq) |-> seq[Len(seq) + 1 - i]]

\* The store refuses a request and leaves the table as it is
Refusal(rows, why) == [rows |-> rows, data |-> <<>>, touched |-> <<>>, error |-> why]

\* What the store does with a request: [rows (the table after it), data (returned),
\* touched (the rows read, written or removed), error]
Execute(rows, req, jwt, now, id) ==
    LET hit == SelectSeq(rows, LAMBDA r : Matches(req, jwt, now, r))
    IN  CASE req.op = "select" ->
               [ rows |-> rows, error |-> "none", touched |-> hit,
                 data |-> IF req.ascending THEN Reverse(hit) ELSE hit ]
          [] req.op = "insert" ->
               LET row == [req.row EXCEPT !.id = id]
               IN  IF ~RowPolicy(jwt, row) THEN Refusal(rows, "policy")
                   ELSE IF ~(PriorityCheck(row) /\ CategoryCheck(row))
                        THEN Refusal(rows, "check")
                   ELSE [ rows |-> <<row>> \o rows, data |-> <<row>>, touched |-> <<row>>,
                          error |-> "none" ]
          [] req.op = "update" ->
               LET new == [i \in 1..Len(hit) |-> ApplyUpdate(hit[i], req.data)]
                   after == [i \in 1..Len(rows) |->
                               IF Matches(req, jwt, now, rows[i])
                               THEN ApplyUpdate(rows[i], req.data) ELSE rows[i]]
               IN  IF \E i \in 1..Len(new) : ~RowPolicy(jwt, new[i])
                   THEN Refusal(rows, "policy")
                   ELSE IF \E i \in 1..Len(new) : ~(PriorityCheck(new[i]) /\ CategoryCheck(new[i]))
                        THEN Refusal(rows, "check")
                   ELSE [ rows |-> after, data |-> new, touched |-> new,
                          error |-> IF Len(new) = 1 THEN "none" ELSE "single" ]
          [] OTHER ->   \* delete
               [ rows |-> SelectSeq(rows, LAMBDA r : ~Matches(req, jwt, now, r)),
                 data |-> <<>>, touched |-> hit, error |-> "none" ]

(***************************************************************************)
(* TodoService (useTodos.ts 183-364) and the read of analyze-tasks         *)
(***************************************************************************)
TodoClients == {1, 2}
NoCall == [op |-> "none", user |-> 0]

Request(op, eqUser, eqId, row, data, status, ascending) ==
    [ op |-> op, eqUser |-> eqUser, eqId |-> eqId, row |-> row, data |-> data,
      status |-> status, ascending |-> ascending ]

\* Lines 197-236: the query getTodos builds
getTodosQuery(user, filters) ==
    Request("select", user, 0, NoRow, NoData, filters.status,
            filters.sortBy /= "priority" /\ filters.sortOrder = "asc")

\* Lines 273-285: the insert createTodo issues
createTodoInsert(user, todoData) ==
    Request("insert", 0, 0,
            [ id |-> 0, user_id |-> user, title |-> todoData.title, due |-> todoData.due,
              priority |-> todoData.priority, category |-> todoData.category,
              completed |-> todoData.completed ],
            NoData, "all", FALSE)

\* The update without its `.eq('user_id', user.id)`
updateTodoUpdateAnyUser(user, id, todoData) ==
    Request("update", 0, id, NoRow, todoData, "all", FALSE)

\* Lines 311-317: the update updateTodo issues
updateTodoUpdate(user, id, todoData) ==
    Request("update", user, id, NoRow, todoData, "all", FALSE)

\* Lines 347-351: the delete deleteTodo issues
deleteTodoDelete(user, id) ==
    Request("delete", user, id, NoRow, NoData, "all", FALSE)

\* part_000 100-104: the read of analyze-tasks
analyzeSelect(user) ==
    Request("select", user, 0, NoRow, NoData, "all", FALSE)

\* ---- inputs of the TodoService calls
PastDue == [d |-> BaseDay - 1, ms |-> 0]
FilterInputs ==
    { [status |-> "all", sortBy |-> "created_at", sortOrder |-> "desc"],
      [status |-> "pending", sortBy |-> "priority", sortOrder |-> "asc"],
      [status |-> "overdue", sortBy |-> "created_at", sortOrder |-> "asc"],
      [status |-> "completed", sortBy |-> "priority", sortOrder |-> "desc"] }
CreateInputs ==
    { [ title |-> 1, due |-> NoDue, priority |-> "low", category |-> "personal",
        completed |-> FALSE ],
      [ title |-> 3, due |-> NoDue, priority |-> "medium", category |-> "health",
        completed |-> FALSE ] }
UpdateInputs ==
    { [field |-> "completed", value |-> "true"], [field |-> "completed", value |-> "false"],
      [field |-> "category", value |-> "health"] }
RowIds == 1..MaxRows

\* ---- the state machine
InitTodos ==
    /\ TextIdle
    /\ ParseIdle
    /\ tz = 0 /\ clock = [d |-> BaseDay, ms |-> MsPerDay \div 2] /\ apiKey = FALSE
    /\ store = <<>> /\ aPc = "idle" /\ aBody = [kind |-> "malformed", period |-> "none"]
    /\ aUser = 0 /\ aRange = NoRange /\ aFiltered = <<>> /\ aNow = NaN
    /\ aStats = NoStats /\ aGen = 0 /\ aText = NoText /\ aErr = NoErr /\ aResp = NoResp
    /\ TodoIdle
    /\ FormIdle
    /\ PanelIdle
    /\ HookIdle
    /\ AuthIdle

Others == <<textVars, envVars, parseVars, requestVars, formVars, panelVars, hookVars, authVars>>

\* The entry of `last` for the call of browser c whose request req the store answered res
Outcome(c, req, res) ==
    [ user |-> call[c].user,
      scope |-> IF req.op = "insert" THEN req.row.user_id ELSE req.eqUser,
      category |-> IF req.op = "insert" THEN req.row.category
                   ELSE IF req.data.field = "category" THEN req.data.value ELSE "none",
      owners |-> {res.touched[i].user_id : i \in 1..Len(res.touched)},
      error |-> res.error ]

\* User c signs in or out in browser c (the session supabase.auth keeps)
SignIn(c) ==
    /\ session[c] = 0
    /\ session' = [session EXCEPT ![c] = c]
    /\ UNCHANGED <<call, last, nextId, store, Others>>

SignOut(c) ==
    /\ session[c] /= 0
    /\ session' = [session EXCEPT ![c] = 0]
    /\ UNCHANGED <<call, last, nextId, store, Others>>

\* `const { data: { user } } = await this.supabase.auth.getUser()`, the first statement of
\* getTodos, createTodo, updateTodo, deleteTodo and of the read of analyze-tasks: without
\* a user the call throws (the route answers 401) and no request is sent. Which of the
\* five it is, and its arguments, shows when its request is sent.
GetUser(c) ==
    /\ call[c] = NoCall
    /\ IF session[c] = 0
       THEN /\ last' = [ user |-> 0, scope |-> 0, category |-> "none", owners |-> {},
                         error |-> "login" ]
            /\ call' = call
       ELSE /\ call' = [call EXCEPT ![c] = [op |-> "called", user |-> session[c]]]
            /\ last' = last
    /\ UNCHANGED <<session, nextId, store, Others>>

\* The request of the call in flight reaches the store under the session jwt, or fails
\* on the way; the call returns.
Resolve(c, req, jwt) ==
    /\ call[c] /= NoCall
    /\ \E lost \in BOOLEAN :
          LET res == IF lost THEN Refusal(store, "network")
                     ELSE Execute(store, req, jwt, clock, nextId)
          IN  /\ store' = res.rows
              /\ nextId' = IF Len(res.rows) > Len(store) THEN nextId + 1 ELSE nextId
              /\ last' = Outcome(c, req, res)
    /\ call' = [call EXCEPT ![c] = NoCall]
    /\ UNCHANGED <<session, Others>>

\* Lines 189-260
getTodos(c) ==
    \E filters \in FilterInputs :
        Resolve(c, getTodosQuery(call[c].user, filters), session[c])

\* Lines 265-298
createTodo(c) ==
    /\ nextId <= MaxRows
    /\ \E todoData \in CreateInputs :
          Resolve(c, createTodoInsert(call[c].user, todoData), session[c])

\* Lines 303-334
updateTodo(c) ==
    \E id \in RowIds, todoData \in UpdateInputs :
        Resolve(c, updateTodoUpdate(call[c].user, id, todoData), session[c])

\* Lines 339-364
deleteTodo(c) ==
    \E id \in RowIds :
        Resolve(c, deleteTodoDelete(call[c].user, id), session[c])

\* part_000 80-115: analyze-tasks reads the rows of the user of the request's cookies
analyzeRead(c) ==
    Resolve(c, analyzeSelect(call[c].user), call[c].user)

NextTodos ==
    \E c \in TodoClients :
        \/ SignIn(c) \/ SignOut(c) \/ GetUser(c)
        \/ getTodos(c) \/ createTodo(c) \/ updateTodo(c) \/ deleteTodo(c) \/ analyzeRead(c)

SpecTodos == InitTodos /\ [][NextTodos]_vars

(***************************************************************************)
(* TodoForm (components/todo/TodoForm.tsx) in front of normalize-task      *)
(***************************************************************************)
MaxParses == 2      \* the form sends at most this many parse requests
MaxSubmits == 1     \* the form is submitted at most this many times

\* What the user types into the AI textarea (maxLength 500)
AiTexts == {x \in BodyInputs : Len(x) <= INPUT_MAX_LENGTH}
\* What the user enters into the manual fields
TypedTitles == {<<U.a, U.a>>, <<U.sp>>}
PickedCategories == {"health"}

\* Lines 196-203: setFormData(prev => ({ ...prev, [field]: value }))
SetField(form, field, value) ==
    CASE field = "title" -> [form EXCEPT !.title = value]
      [] field = "category" -> [form EXCEPT !.category = value]
      [] OTHER -> form

\* Lines 86-111: validateForm's newErrors
validateForm(form, now) ==
    [ title |-> IF Trim(form.title) = <<>> THEN "TitleRequired"
                ELSE IF Len(form.title) > 100 THEN "TitleTooLong" ELSE "none",
      description |-> IF Len(form.description) > 500 THEN "DescriptionTooLong" ELSE "none",
      due_date |-> IF form.due_date /= NaN /\ Before(form.due_date, now) THEN "DueInPast"
                   ELSE "none" ]

\* A handler that resets the fields when the parse fails
AfterFailedParseCleared(form) == BlankForm

\* The form without a usable answer (lines 149-152, 171-186): formData is not set
AfterFailedParse(form) == form

\* Lines 155-170: formData after handleAISubmit read `result`
AfterAIParse(form, ok, result) ==
    IF ok /\ result.success
    THEN [form EXCEPT !.title = result.data.title, !.description = result.data.description,
                      !.due_date = result.data.due_date, !.priority = result.data.priority,
                      !.category = result.data.category]
    ELSE AfterFailedParse(form)

InitForm ==
    /\ TextIdle
    /\ TodoIdle
    /\ FormIdle
    /\ PanelIdle
    /\ HookIdle
    /\ AuthIdle
    /\ ParseIdle
    /\ AnalyzeIdle
    /\ store = <<>>
    /\ tz = 540
    /\ clock = [d |-> BaseDay + 1, ms |-> MsPerDay \div 2]
    /\ apiKey \in BOOLEAN

Backstage == <<textVars, envVars, analyzeVars, todoVars, panelVars, hookVars, authVars>>

\* The exchange with normalize-task is over: the route keeps nothing of the request
ExchangeOver ==
    /\ pPc' = "idle"
    /\ pBody' = [kind |-> "malformed", input |-> <<>>]
    /\ pDates' = NoDates /\ pNow' = NaN /\ pParsed' = NoObject /\ pFixed' = NoFixed
    /\ pErr' = NoErr /\ pResp' = NoResp
    /\ pGen' = pGen

\* Line 238: the AI mode switch
setIsAIMode ==
    /\ isAIMode' = ~isAIMode
    /\ UNCHANGED <<formData, errors, aiInput, isAIParsing, aiCalls, parsesInFlight, onSubmitCalls>>
    /\ UNCHANGED <<parseVars, Backstage>>

\* Line 271: the textarea of the AI mode, disabled while a parse is in flight
setAiInput ==
    /\ isAIMode
    /\ ~isAIParsing
    /\ \E x \in AiTexts : aiInput' = x
    /\ UNCHANGED <<formData, errors, isAIMode, isAIParsing, aiCalls, parsesInFlight, onSubmitCalls>>
    /\ UNCHANGED <<parseVars, Backstage>>

\* Lines 196-203: a field of the manual mode changes; its error goes
handleInputChange ==
    /\ ~isAIMode
    /\ \/ \E value \in TypedTitles :
             /\ formData' = SetField(formData, "title", value)
             /\ errors' = [errors EXCEPT !.title = "none"]
       \/ \E value \in PickedCategories :
             /\ formData' = SetField(formData, "category", value)
             /\ errors' = errors
    /\ UNCHANGED <<isAIMode, aiInput, isAIParsing, aiCalls, parsesInFlight, onSubmitCalls>>
    /\ UNCHANGED <<parseVars, Backstage>>

\* Lines 116-124: the submit button of the manual mode (disabled while the title is blank)
handleSubmit ==
    /\ ~isAIMode
    /\ Trim(formData.title) /= <<>>
    /\ onSubmitCalls < MaxSubmits
    /\ errors' = validateForm(formData, clock)
    /\ onSubmitCalls' = IF validateForm(formData, clock) = NoErrors
                        THEN onSubmitCalls + 1 ELSE onSubmitCalls
    /\ UNCHANGED <<formData, isAIMode, aiInput, isAIParsing, aiCalls, parsesInFlight>>
    /\ UNCHANGED <<parseVars, Backstage>>

\* An AI button that stays enabled while a parse is in flight
AIButtonDisabledWhenBlank == Trim(aiInput) = <<>>

\* Lines 285-289: disabled={!aiInput.trim() || loading || isAIParsing}; the `loading` prop
\* is false while the form is open for input
AIButtonDisabled == Trim(aiInput) = <<>> \/ isAIParsing

\* Lines 129-146: the AI button posts { input: aiInput } to normalize-task
handleAISubmit ==
    /\ isAIMode
    /\ ~AIButtonDisabled
    /\ aiCalls < MaxParses
    /\ isAIParsing' = TRUE
    /\ errors' = NoErrors
    /\ aiCalls' = aiCalls + 1
    /\ parsesInFlight' = parsesInFlight + 1
    /\ pBody' = [kind |-> "string", input |-> aiInput]
    /\ UNCHANGED <<pPc, pDates, pNow, pParsed, pFixed, pGen, pErr, pResp>>
    /\ UNCHANGED <<formData, isAIMode, aiInput, onSubmitCalls, Backstage>>

\* What the generation service answers to the form's texts
FormTitlePairs == {[title |-> <<U.ga, U.ga>>, description |-> <<>>]}
FormDueTimes == {Hm(15, 30), Hm(25, 0)}

\* normalize-task works on the request of the form
RouteStep ==
    /\ parsesInFlight > 0
    /\ \/ ParseTodoReject
       \/ ParseTodoCall
       \/ ParseTodoThrows
       \/ ParseTodoReturnsAmong(FormTitlePairs, FormDueTimes)

\* Lines 146-188: the response arrived
handleAISubmitResponse ==
    /\ parsesInFlight > 0
    /\ pPc = "done"
    /\ LET ok == pResp.status >= 200 /\ pResp.status <= 299
       IN  /\ formData' = AfterAIParse(formData, ok, pResp)
           /\ IF ok /\ pResp.success
              THEN /\ aiInput' = <<>>
                   /\ isAIMode' = FALSE
                   /\ errors' = NoErrors
              ELSE /\ errors' = [NoErrors EXCEPT !.title = pResp.error]
                   /\ UNCHANGED <<aiInput, isAIMode>>
    /\ isAIParsing' = FALSE
    /\ parsesInFlight' = parsesInFlight - 1
    /\ ExchangeOver
    /\ UNCHANGED <<aiCalls, onSubmitCalls, Backstage>>

\* Lines 171-188: fetch rejected (no connection); the message is the browser's
handleAISubmitFetchFails ==
    /\ parsesInFlight > 0
    /\ formData' = AfterFailedParse(formData)
    /\ \E message \in {"CheckNetwork", "LoadFailed"} :
          errors' = [NoErrors EXCEPT !.title = message]
    /\ isAIParsing' = FALSE
    /\ parsesInFlight' = parsesInFlight - 1
    /\ ExchangeOver
    /\ UNCHANGED <<aiInput, isAIMode, aiCalls, onSubmitCalls, Backstage>>

AnalysisPeriods == {"today", "week"}

\* HTTPSRedirect.tsx lines 504-553 and 556-605 (with 291-298, 468-475): a button that calls
\* handleAnalyze(p) can be pressed. The start button is disabled={loading}; the skeleton
\* replaces the rest while loading; the retry button and the re-analyse button (the
\* latter disabled={loading}) are rendered only when loading is false.
AnalyzeButtonEnabled(p) ==
    IF analysisData = "null" \/ analysisPeriod /= p THEN ~loading
    ELSE IF loading THEN FALSE
    ELSE TRUE

PanelOthers == <<textVars, envVars, parseVars, analyzeVars, todoVars, formVars, hookVars, authVars>>

\* Lines 77-90: handleAnalyze up to its fetch
handleAnalyze ==
    /\ \E p \in AnalysisPeriods :
          /\ AnalyzeButtonEnabled(p)
          /\ analysisPeriod' = p
    /\ loading' = TRUE
    /\ analysisError' = "null"
    /\ analysesInFlight' = analysesInFlight + 1
    /\ UNCHANGED <<analysisData, PanelOthers>>

\* Lines 91-98, 105-107: the response is ok and result.success; the data is stored
handleAnalyzeSucceeds ==
    /\ analysesInFlight > 0
    /\ analysisData' = analysisPeriod
    /\ loading' = FALSE
    /\ analysesInFlight' = analysesInFlight - 1
    /\ UNCHANGED <<analysisPeriod, analysisError, PanelOthers>>

\* Lines 93-107: an error response (its `error`, or the default message), or fetch or
\* response.json() threw; the catch block sets `error`
handleAnalyzeFails ==
    /\ analysesInFlight > 0
    /\ \E message \in {"AnalysisFailed", "Thrown"} : analysisError' = message
    /\ loading' = FALSE
    /\ analysesInFlight' = analysesInFlight - 1
    /\ UNCHANGED <<analysisPeriod, analysisData, PanelOthers>>

NextForm ==
    \/ setIsAIMode \/ setAiInput \/ handleInputChange \/ handleSubmit
    \/ handleAISubmit \/ RouteStep \/ handleAISubmitResponse \/ handleAISubmitFetchFails

SpecForm == InitForm /\ [][NextForm]_vars

\* The two components that send AI requests, side by side: the AI mode of the form and
\* the analysis panel
NextRequests ==
    \/ setIsAIMode \/ setAiInput
    \/ handleAISubmit \/ RouteStep \/ handleAISubmitResponse \/ handleAISubmitFetchFails
    \/ handleAnalyze \/ handleAnalyzeSucceeds \/ handleAnalyzeFails

SpecRequests == InitForm /\ [][NextRequests]_vars

(***************************************************************************)
(* The useTodos hook (hooks/useTodos.ts 8-130) in front of TodoService     *)
(***************************************************************************)
MaxInFlight == 2    \* at most this many fetchTodos and toggle calls await their answer

HookUser == 1
StatusInputs == {"all", "completed", "pending"}

\* What a call of the service meets: nothing, a request that fails on the way, or
\* auth.getUser() without a user (the session ended; the hook's `user` is the one
\* AuthProvider handed it)
Faults == {"none", "network", "login"}

\* Lines 189-260: what getTodos(filters) returns. Every failure is caught (255-259) and
\* [] is returned.
getTodosReturns(rows, user, given, now, fault) ==
    LET res == IF fault /= "none" THEN Refusal(rows, fault)
               ELSE Execute(rows, getTodosQuery(user, given), user, now, 0)
    IN  [ failed |-> res.error /= "none", error |-> res.error,
          data |-> IF res.error /= "none" THEN <<>> ELSE res.data ]

\* Lines 265-364: what the store is asked and the service returns. `data` is <<>> where
\* the service returns null or false.
ServiceWrite(rows, req, user, now, id, fault) ==
    LET res == IF fault /= "none" THEN Refusal(rows, fault)
               ELSE Execute(rows, req, user, now, id)
    IN  [ rows |-> res.rows, ok |-> res.error = "none", error |-> res.error,
          data |-> IF res.error = "none" THEN res.data ELSE <<>> ]

\* The entry of `last` for a call of the hook's user that ended with `error`
HookOutcome(error) ==
    [user |-> HookUser, scope |-> HookUser, category |-> "none", owners |-> {}, error |-> error]

\* Lines 65-69, 99-103: setTodos(prev => prev.map(todo => todo.id === id ? updatedTodo : todo))
MapReplace(prev, id, updatedTodo) ==
    [i \in 1..Len(prev) |-> IF prev[i].id = id THEN updatedTodo ELSE prev[i]]

HookOthers ==
    <<textVars, envVars, parseVars, requestVars, formVars, panelVars, authVars, call>>

\* The hook is mounted for user 1 with the session of user 1 and some rows in the table
StoredRow(id, done) ==
    [ id |-> id, user_id |-> HookUser, title |-> id, due |-> NoDue, priority |-> "low",
      category |-> "work", completed |-> done ]
InitHook ==
    /\ TextIdle
    /\ ParseIdle
    /\ FormIdle
    /\ PanelIdle
    /\ HookIdle
    /\ AuthIdle
    /\ tz = 0 /\ clock = [d |-> BaseDay, ms |-> MsPerDay \div 2] /\ apiKey = FALSE
    /\ aPc = "idle" /\ aBody = [kind |-> "malformed", period |-> "none"]
    /\ aUser = 0 /\ aRange = NoRange /\ aFiltered = <<>> /\ aNow = NaN
    /\ aStats = NoStats /\ aGen = 0 /\ aText = NoText /\ aErr = NoErr /\ aResp = NoResp
    /\ session = [c \in {1, 2} |-> IF c = HookUser THEN HookUser ELSE 0]
    /\ call = [c \in {1, 2} |-> NoCall]
    /\ last = [user |-> 0, scope |-> 0, category |-> "none", owners |-> {}, error |-> "idle"]
    /\ \E done \in BOOLEAN :
          /\ store \in {<<>>, <<StoredRow(1, done)>>}
          /\ nextId = Len(store) + 1

\* Lines 18-28: fetchTodos up to its await (the effect of lines 110-112 at mount, or
\* refetch)
fetchTodos ==
    /\ Len(fetches) + Len(toggles) < MaxInFlight
    /\ todosLoading' = TRUE
    /\ todosError' = "null"
    /\ fetches' = Append(fetches, todoFilters)
    /\ UNCHANGED <<todoList, todoFilters, toggles, shownFor, lastRead>>
    /\ UNCHANGED <<store, session, nextId, last, HookOthers>>

\* Lines 40-42 and 110-112: setFilters makes a new fetchTodos, and the effect calls it
updateFilters ==
    /\ Len(fetches) + Len(toggles) < MaxInFlight
    /\ \E status \in StatusInputs :
          /\ todoFilters' = [todoFilters EXCEPT !.status = status]
          /\ fetches' = Append(fetches, [todoFilters EXCEPT !.status = status])
    /\ todosLoading' = TRUE
    /\ todosError' = "null"
    /\ UNCHANGED <<todoList, toggles, shownFor, lastRead>>
    /\ UNCHANGED <<store, session, nextId, last, HookOthers>>

\* Lines 28-34: getTodos of one of the calls in flight returns; getTodos never throws, so
\* the catch block of fetchTodos is not entered
fetchTodosReturns ==
    /\ \E i \in 1..Len(fetches), fault \in Faults :
          LET got == getTodosReturns(store, HookUser, fetches[i], clock, fault)
          IN  /\ todoList' = got.data
              /\ shownFor' = fetches[i]
              /\ lastRead' = IF got.failed THEN "failed" ELSE "ok"
              /\ last' = HookOutcome(got.error)
              /\ fetches' = [k \in 1..(Len(fetches) - 1) |->
                               IF k < i THEN fetches[k] ELSE fetches[k + 1]]
    /\ todosLoading' = FALSE
    /\ UNCHANGED <<todosError, todoFilters, toggles>>
    /\ UNCHANGED <<store, session, nextId, HookOthers>>

\* Lines 47-56: createTodo of the hook
useTodosCreateTodo ==
    /\ nextId <= MaxRows
    /\ \E todoData \in CreateInputs, fault \in Faults :
          LET res == ServiceWrite(store, createTodoInsert(HookUser, todoData),
                                  HookUser, clock, nextId, fault)
          IN  /\ store' = res.rows
              /\ last' = HookOutcome(res.error)
              /\ nextId' = IF res.ok THEN nextId + 1 ELSE nextId
              /\ todoList' = IF res.ok THEN <<res.data[1]>> \o todoList ELSE todoList
    /\ UNCHANGED <<todosLoading, todosError, todoFilters, fetches, toggles, shownFor, lastRead>>
    /\ UNCHANGED <<session, HookOthers>>

\* Lines 61-72: updateTodo of the hook
useTodosUpdateTodo ==
    /\ \E id \in RowIds, todoData \in UpdateInputs, fault \in Faults :
          LET res == ServiceWrite(store, updateTodoUpdate(HookUser, id, todoData),
                                  HookUser, clock, 0, fault)
          IN  /\ store' = res.rows
              /\ last' = HookOutcome(res.error)
              /\ todoList' = IF res.ok THEN MapReplace(todoList, id, res.data[1]) ELSE todoList
    /\ UNCHANGED <<todosLoading, todosError, todoFilters, fetches, toggles, shownFor, lastRead>>
    /\ UNCHANGED <<session, nextId, HookOthers>>

\* Lines 77-86: deleteTodo of the hook
useTodosDeleteTodo ==
    /\ \E id \in RowIds, fault \in Faults :
          LET res == ServiceWrite(store, deleteTodoDelete(HookUser, id), HookUser, clock, 0,
                                  fault)
          IN  /\ store' = res.rows
              /\ last' = HookOutcome(res.error)
              /\ todoList' = IF res.ok THEN SelectSeq(todoList, LAMBDA t : t.id /= id) ELSE todoList
    /\ UNCHANGED <<todosLoading, todosError, todoFilters, fetches, toggles, shownFor, lastRead>>
    /\ UNCHANGED <<session, nextId, HookOthers>>

\* Lines 91-98: toggleTodoComplete up to its await
toggleTodoComplete ==
    /\ Len(fetches) + Len(toggles) < MaxInFlight
    /\ \E i \in 1..Len(todoList) :
          toggles' = Append(toggles, [id |-> todoList[i].id, completed |-> ~todoList[i].completed])
    /\ UNCHANGED <<todoList, todosLoading, todosError, todoFilters, fetches, shownFor, lastRead>>
    /\ UNCHANGED <<store, session, nextId, last, HookOthers>>

\* Lines 98-104: updateTodo of the oldest toggle in flight returns
toggleTodoCompleteReturns ==
    /\ toggles /= <<>>
    /\ \E fault \in Faults :
          LET t == Head(toggles)
              todoData == [ field |-> "completed",
                            value |-> IF t.completed THEN "true" ELSE "false" ]
              res == ServiceWrite(store, updateTodoUpdate(HookUser, t.id, todoData),
                                  HookUser, clock, 0, fault)
          IN  /\ store' = res.rows
              /\ last' = HookOutcome(res.error)
              /\ todoList' = IF res.ok THEN MapReplace(todoList, t.id, res.data[1]) ELSE todoList
    /\ toggles' = Tail(toggles)
    /\ UNCHANGED <<todosLoading, todosError, todoFilters, fetches, shownFor, lastRead>>
    /\ UNCHANGED <<session, nextId, HookOthers>>

NextHook ==
    \/ fetchTodos \/ updateFilters \/ fetchTodosReturns
    \/ useTodosCreateTodo \/ useTodosUpdateTodo \/ useTodosDeleteTodo
    \/ toggleTodoComplete \/ toggleTodoCompleteReturns

SpecHook == InitHook /\ [][NextHook]_vars

(***************************************************************************)
(* AuthProvider (unnamed/part_003) and AuthGuard (components/auth)         *)
(***************************************************************************)
MaxEvents == 2      \* at most this many auth state changes await the callback

AuthUser == 1
Paths == {"/", "/login", "/signup"}
isPublicPage(path) == path = "/login" \/ path = "/signup"

\* A guard without the branch for pages that need a signed-out visitor
AuthGuardProtectedOnly(requireAuth) ==
    IF authLoading THEN "loading"
    ELSE IF requireAuth /\ authUser = 0 THEN "null"
    ELSE "children"

\* AuthGuard.tsx lines 19-51: what the guard renders
AuthGuard(requireAuth) ==
    IF authLoading THEN "loading"
    ELSE IF requireAuth /\ authUser = 0 THEN "null"
    ELSE IF ~requireAuth /\ authUser /= 0 THEN "null"
    ELSE "children"

AuthOthers ==
    <<textVars, envVars, parseVars, analyzeVars, formVars, panelVars, hookVars,
      call, last, nextId>>

\* The tab opens on some page, with or without a stored session
InitAuth ==
    /\ TextIdle
    /\ ParseIdle
    /\ AnalyzeIdle
    /\ FormIdle
    /\ PanelIdle
    /\ HookIdle
    /\ tz = 0 /\ clock = [d |-> BaseDay, ms |-> MsPerDay \div 2] /\ apiKey = FALSE
    /\ call = [c \in {1, 2} |-> NoCall]
    /\ last = [user |-> 0, scope |-> 0, category |-> "none", owners |-> {}, error |-> "idle"]
    /\ nextId = 1
    /\ \E u \in {0, AuthUser} : session = [c \in {1, 2} |-> IF c = AuthUser THEN u ELSE 0]
    /\ authUser = 0 /\ authLoading = TRUE /\ initAuth = "pending" /\ authEvents = <<>>
    /\ pathname \in Paths

\* Lines 50-70: getSession answered (or threw); initializeAuth runs to its end
initializeAuth ==
    /\ initAuth = "pending"
    /\ initAuth' = "done"
    /\ authLoading' = FALSE
    /\ \E threw \in BOOLEAN :
          IF threw THEN UNCHANGED <<authUser, pathname>>
          ELSE /\ authUser' = session[AuthUser]
               /\ pathname' = IF session[AuthUser] = 0 /\ ~isPublicPage(pathname)
                              THEN "/login" ELSE pathname
    /\ UNCHANGED <<authEvents, session, AuthOthers>>

\* The auth client of the tab gets or loses its session (sign-in form, another tab,
\* expiry) or refreshes its token, and announces it
AuthStateChanges ==
    /\ Len(authEvents) < MaxEvents
    /\ \E event \in {"INITIAL_SESSION", "SIGNED_IN", "SIGNED_OUT", "TOKEN_REFRESHED"} :
          LET u == CASE event = "SIGNED_IN" -> AuthUser
                     [] event = "SIGNED_OUT" -> 0
                     [] OTHER -> session[AuthUser]
          IN  /\ event = "TOKEN_REFRESHED" => session[AuthUser] /= 0
              /\ event = "SIGNED_IN" => session[AuthUser] = 0
              /\ event = "SIGNED_OUT" => session[AuthUser] /= 0
              /\ session' = [session EXCEPT ![AuthUser] = u]
              /\ authEvents' = Append(authEvents, [event |-> event, user |-> u])
    /\ UNCHANGED <<authUser, authLoading, pathname, initAuth, AuthOthers>>

\* Lines 75-99: the callback of onAuthStateChange
onAuthStateChange ==
    /\ authEvents /= <<>>
    /\ LET event == Head(authEvents).event
           u == Head(authEvents).user
       IN  /\ authUser' = u
           /\ authLoading' = FALSE
           /\ pathname' =
                 IF event = "SIGNED_IN" /\ u /= 0
                 THEN (IF isPublicPage(pathname) THEN "/" ELSE pathname)
                 ELSE IF event = "SIGNED_OUT" THEN "/login"
                 ELSE IF u = 0 /\ ~isPublicPage(pathname) THEN "/login"
                 ELSE pathname
    /\ authEvents' = Tail(authEvents)
    /\ UNCHANGED <<initAuth, session, AuthOthers>>

\* Lines 35-45: signOut of the provider; on an error nothing changes
signOut ==
    /\ session[AuthUser] /= 0
    /\ Len(authEvents) < MaxEvents
    /\ \E failed \in BOOLEAN :
          IF failed THEN UNCHANGED <<session, authEvents, authUser, pathname>>
          ELSE /\ session' = [session EXCEPT ![AuthUser] = 0]
               /\ authEvents' = Append(authEvents, [event |-> "SIGNED_OUT", user |-> 0])
               /\ authUser' = 0
               /\ pathname' = "/login"
    /\ UNCHANGED <<authLoading, initAuth, AuthOthers>>

\* The visitor follows a link
Navigate ==
    /\ \E path \in Paths : pathname' = path
    /\ UNCHANGED <<authUser, authLoading, initAuth, authEvents, session, AuthOthers>>

NextAuth ==
    \/ initializeAuth \/ AuthStateChanges \/ onAuthStateChange \/ signOut \/ Navigate

SpecAuth == InitAuth /\ [][NextAuth]_vars

(***************************************************************************)
(* Claims                                                                  *)
(***************************************************************************)

\* ---- helpers of the claims (independent of the definitions above) ----
\* ASCII punctuation, the General Punctuation and CJK Symbols and Punctuation
\* blocks, and the two punctuation marks of the katakana block.
IsPunctuation(c) ==
    \/ InRange(c, 33, 47) \/ InRange(c, 58, 64) \/ InRange(c, 91, 96) \/ InRange(c, 123, 126)
    \/ InRange(c, 8208, 8231) \/ InRange(c, 12289, 12351)
    \/ c \in {12448, 12539}
\* A unit of an emoji: a surrogate, a variation selector, the keycap mark, or the
\* digit a keycap emoji starts with.
IsEmojiUnit(s, i) ==
    \/ InRange(s[i], 55296, 57343)
    \/ InRange(s[i], 65024, 65039)
    \/ s[i] = 8419
    \/ (InRange(s[i], 48, 57) /\ i < Len(s) /\ s[i + 1] = 65039)
OnlyWsPunctEmoji(s) ==
    \A i \in 1..Len(s) : IsWhiteSpace(s[i]) \/ IsPunctuation(s[i]) \/ IsEmojiUnit(s, i)
\* The five script ranges validateInput tests, as Unicode blocks.
InScriptRanges(c) ==
    \/ InRange(c, 12593, 12686) \/ InRange(c, 44032, 55203)
    \/ InRange(c, 65, 90) \/ InRange(c, 97, 122)
    \/ InRange(c, 48, 57)
    \/ InRange(c, 19968, 40959)
    \/ InRange(c, 12352, 12543)
OutsideScripts(s) == \A i \in 1..Len(s) : ~InScriptRanges(s[i])
LeadingWs(s) == Cardinality({i \in 1..Len(s) : \A j \in 1..i : IsWhiteSpace(s[j])})
TrailingWs(s) == Cardinality({i \in 1..Len(s) : \A j \in i..Len(s) : IsWhiteSpace(s[j])})
Validated == job = "text" /\ verdict /= NoVerdict

\* C3 (as stated): every text made only of whitespace, punctuation or emoji, of any
\* length, fails validation with the reason NoMeaningfulText.
C3_Original ==
    (Validated /\ Len(rawInput) > 0 /\ OnlyWsPunctEmoji(rawInput)) =>
        verdict.error = "NoMeaningfulText"

\* C3 (amended): a text made only of whitespace, punctuation or emoji units that lie
\* outside the script ranges validateInput tests always fails validation; the reason is
\* NoMeaningfulText when the normalized length is 2..500, EmptyInput at length 0,
\* TooShort at length 1 and TooLong (with the length) above 500.
C3_NoMeaningfulText ==
    (Validated /\ OnlyWsPunctEmoji(rawInput) /\ OutsideScripts(rawInput)) =>
        /\ ~verdict.valid
        /\ verdict.error =
              IF Len(text) = 0 THEN "EmptyInput"
              ELSE IF Len(text) < 2 THEN "TooShort"
              ELSE IF Len(text) > 500 THEN "TooLong"
              ELSE "NoMeaningfulText"
        /\ (Len(text) > 500 => verdict.len = Len(text))

\* C3 witness: an emoji-and-punctuation text of admissible length was rejected.
C3_Witness ==
    /\ Validated /\ OnlyWsPunctEmoji(rawInput) /\ OutsideScripts(rawInput)
    /\ Len(text) >= 2 /\ Len(text) <= 500
    /\ \E i \in 1..Len(text) : text[i] = U.emojiHi
    /\ verdict.error = "NoMeaningfulText"

\* C4: postprocessTitle returns the placeholder for a title whose trimmed length is
\* below 2, the first 97 characters of the trimmed title followed by "..." (100
\* characters) when the trimmed length exceeds 100, and otherwise the title without its
\* surrounding whitespace; the result always has between 2 and 100 characters.
C4_TitleClamp ==
    (job = "title" /\ titleOut /= NoTitle) =>
        LET lead == LeadingWs(title)
            n == IF lead = Len(title) THEN 0 ELSE Len(title) - lead - TrailingWs(title)
        IN  /\ n < 2 => titleOut = Placeholder
            /\ n > 100 =>
                  /\ Len(titleOut) = 100
                  /\ \A i \in 1..97 : titleOut[i] = title[lead + i]
                  /\ \A i \in 98..100 : titleOut[i] = U.dot
            /\ (n >= 2 /\ n <= 100) =>
                  /\ Len(titleOut) = n
                  /\ \A i \in 1..n : titleOut[i] = title[lead + i]
            /\ Len(titleOut) >= 2 /\ Len(titleOut) <= 100

\* C4 witness: a title of 150 characters with blanks around it was cut to 100.
C4_Witness ==
    /\ job = "title" /\ titleOut /= NoTitle
    /\ Len(title) > 150 /\ LeadingWs(title) > 0
    /\ Len(titleOut) = 100

\* C5: preprocessInput is idempotent: applying it to its own result changes nothing.
C5_Idempotent ==
    (job = "text" /\ nPre = 2) => text = prevText

\* C5 witness: a second application happened on an input the first one changed.
C5_Witness ==
    /\ job = "text" /\ nPre = 2
    /\ Len(text) >= 3 /\ text /= rawInput
    /\ \E i \in 1..Len(rawInput) : rawInput[i] = U.nl

\* ---- helpers of the claims about normalize-task ----
\* Day number of a date string of the year 2024, counted from the month lengths.
MonthLen2024 == <<31, 29, 31, 30, 31, 30, 31, 31, 30, 31, 30, 31>>
RECURSIVE DaysBeforeMonth2024(_)
DaysBeforeMonth2024(m) == IF m = 1 THEN 0 ELSE DaysBeforeMonth2024(m - 1) + MonthLen2024[m - 1]
WrittenDay(ds) == 19722 + DaysBeforeMonth2024(ds.m) + ds.d    \* 2024-01-01 is day 19723
\* Two digits, a colon, two digits; hour 00-23 and minute 00-59
StrictHHMM(t) ==
    /\ Len(t) = 5 /\ t[3] = 58
    /\ \A i \in {1, 2, 4, 5} : t[i] \in 48..57
    /\ (t[1] - 48) * 10 + (t[2] - 48) <= 23
    /\ (t[4] - 48) * 10 + (t[5] - 48) <= 59
\* One or two hour digits, a colon, two minute digits; hour 0-23 and minute 00-59
LenientHMM(t) ==
    \/ StrictHHMM(t)
    \/ /\ Len(t) = 4 /\ t[2] = 58
       /\ \A i \in {1, 3, 4} : t[i] \in 48..57
       /\ (t[3] - 48) * 10 + (t[4] - 48) <= 59
NineOClock == <<48, 57, 58, 48, 48>>
\* Post-processing went past the date sanity check
DateStepDone == pPc = "done" /\ pParsed.title /= NoTitle /\ pParsed.due_date.fmt /= "text"
                  /\ pParsed.due_date.m <= 12

\* C1: when the extracted due_date parses to a calendar date strictly earlier than
\* today (the local date of POST's now), it is rewritten to the today anchor of the date
\* helpers and an already valid due_time is left unchanged; a due_date that parses to
\* today or later is not changed. In terms of the date written in the string: a date
\* before today is always rewritten to the anchor, a date after today never is.
C1_PastDateCorrected ==
    DateStepDone =>
        LET today == LocalDay(pNow)
            parsedDay == LocalDay(ParseDate(pParsed.due_date))
            written == WrittenDay(pParsed.due_date)
        IN  /\ parsedDay < today =>
                  /\ pFixed.due_date = pDates.today
                  /\ StrictHHMM(pParsed.due_time) => pFixed.due_time = pParsed.due_time
            /\ parsedDay >= today => pFixed.due_date = pParsed.due_date
            /\ written < today => pFixed.due_date = pDates.today
            /\ written > today => pFixed.due_date = pParsed.due_date

\* C1 witness: yesterday's date was rewritten to today and the time 15:30 was kept.
C1_Witness ==
    /\ DateStepDone
    /\ WrittenDay(pParsed.due_date) = LocalDay(pNow) - 1
    /\ pFixed.due_date = pDates.today
    /\ WrittenDay(pFixed.due_date) = LocalDay(pNow)
    /\ pParsed.due_time = <<49, 53, 58, 51, 48>>
    /\ pFixed.due_time = pParsed.due_time
    /\ pResp.success

C6_ThisWeekdayWindow ==
    pDates.today.fmt = "ymd" =>
        LET today == LocalDay(pDates.at)
        IN  \A w \in 0..6 :
                /\ WrittenDay(pDates.this[w]) >= today
                /\ WrittenDay(pDates.this[w]) <= today + 6
                /\ (WrittenDay(pDates.this[w]) + 4) % 7 = w

\* C6 witness: the helper ran on a day whose week anchors reach into the next month,
\* and the anchor of today's own weekday is today.
C6_Witness ==
    /\ pDates.today.fmt = "ymd"
    /\ \E w \in 0..6 : pDates.this[w].m /= pDates.today.m
    /\ \E w \in 0..6 : pDates.this[w] = pDates.today /\ WrittenDay(pDates.today) = LocalDay(pDates.at)

\* ---- helpers of the claims about analyze-tasks ----
Tenths(rate) == rate.int * 10 + rate.frac
Done == {i \in 1..Len(aFiltered) : aFiltered[i].completed}
UrgentIdx == {i \in 1..Len(aFiltered) : ~aFiltered[i].completed /\ aFiltered[i].priority = "high"}
\* The rows of the caller whose due instant lies in the resolved window
OwnInWindow ==
    {i \in 1..Len(store) :
        /\ store[i].user_id = aUser
        /\ store[i].due.d >= 0
        /\ ~Before(store[i].due, aRange.start)
        /\ ~Before(aRange.end, store[i].due)}
\* result.text holds anything but one JSON value between fences and whitespace
Unparsable(tokens) ==
    LET rest == SelectSeq(tokens, LAMBDA k : k.kind \notin {"fenceJson", "fence", "ws"})
    IN  ~(Len(rest) = 1 /\ rest[1].kind = "json")
Returned == aPc = "done" /\ aText /= NoText
CannedSummaries == {"noTodosYet", "nothingScheduled"}

\* C7: the completion rate over the filtered tasks is completed / total x 100 rounded
\* to one decimal place (62.5 for 5 of 8); it is computed only for a non-empty filtered
\* set, so no division by zero is reachable, and the expression yields 0 for total 0.
C7_CompletionRate ==
    /\ CompletionRate(0, 0).int = 0
    /\ aStats /= NoStats =>
          LET t == Len(aFiltered)
              c == Cardinality(Done)
              r == Tenths(aStats.completionRate)
          IN  /\ t > 0
              /\ aStats.totalCount = t /\ aStats.completedCount = c
              /\ aStats.completionRate.frac \in 0..9
              /\ 2 * (r * t - 1000 * c) <= t
              /\ 2 * (1000 * c - r * t) <= t
              /\ (c = 5 /\ t = 8) => r = 625

\* C7 witness: five of eight tasks completed, rate 62.5.
C7_Witness ==
    /\ aStats /= NoStats
    /\ Len(aFiltered) = 8 /\ Cardinality(Done) = 5
    /\ aStats.completionRate = [int |-> 62, frac |-> 5]

\* C8: when the text generateText returns cannot be parsed as JSON once the code
\* fences are stripped, the request ends with a success response holding the fallback:
\* a summary with the total count, the completed count and the completion rate,
\* urgentTasks equal to the titles of the first at most 5 incomplete high-priority
\* tasks of the filtered set, and non-empty insights and recommendations.
C8_FallbackOnParseFailure ==
    (Returned /\ Unparsable(aText)) =>
        /\ aResp.success /\ aResp.status = 200
        /\ aResp.data.summary.tpl = "fallback"
        /\ aResp.data.summary.total = Len(aFiltered)
        /\ aResp.data.summary.completed = Cardinality(Done)
        /\ aResp.data.summary.rate = aStats.completionRate
        /\ 2 * (Tenths(aResp.data.summary.rate) * Len(aFiltered) - 1000 * Cardinality(Done))
              <= Len(aFiltered)
        /\ 2 * (1000 * Cardinality(Done) - Tenths(aResp.data.summary.rate) * Len(aFiltered))
              <= Len(aFiltered)
        /\ LET urgent == aResp.data.urgentTasks
           IN  /\ Len(urgent) = IF Cardinality(UrgentIdx) < 5 THEN Cardinality(UrgentIdx) ELSE 5
               /\ \A k \in 1..Len(urgent) :
                     \E i \in UrgentIdx :
                        /\ Cardinality({j \in UrgentIdx : j < i}) = k - 1
                        /\ urgent[k] = aFiltered[i].title
        /\ Len(aResp.data.insights) > 0
        /\ Len(aResp.data.recommendations) > 0

\* C8 witness: prose came back for a set with more than five urgent tasks, and the
\* fallback listed five of them.
C8_Witness ==
    /\ Returned /\ aText = <<Tok("prose")>>
    /\ Cardinality(UrgentIdx) > 5
    /\ aResp.success /\ Len(aResp.data.urgentTasks) = 5
    /\ aResp.data.summary.total = 8 /\ aResp.data.summary.completed = 2

\* C9: when the authenticated owner has no task at all, or no task of the owner is due
\* inside the resolved window, the request (once the rows are read) ends in success
\* with a canned result whose urgentTasks is empty, and generateText is never called,
\* whether or not the credential is configured.
C9_ZeroTaskShortCircuit ==
    (aPc /= "idle" /\ aRange /= NoRange /\ OwnInWindow = {}) =>
        /\ aGen = 0
        /\ aPc /= "generating"
        /\ aPc = "done" =>
              \/ ~aResp.success /\ aResp.error = "StoreRead"
              \/ /\ aResp.success /\ aResp.status = 200
                 /\ aResp.data.urgentTasks = <<>>
                 /\ aResp.data.summary.tpl =
                       IF \E i \in 1..Len(store) : store[i].user_id = aUser
                       THEN "nothingScheduled" ELSE "noTodosYet"

\* C9 witness: without a credential, an owner whose tasks all lie outside the window got
\* the canned result and no generation call was made.
C9_Witness ==
    /\ aPc = "done" /\ ~apiKey /\ aUser /= 0
    /\ \E i \in 1..Len(store) : store[i].user_id = aUser
    /\ OwnInWindow = {}
    /\ aResp.success /\ aResp.data.summary.tpl = "nothingScheduled"
    /\ aGen = 0

\* C10 (as stated): every success response carries at most 5 urgentTasks, 3 to 6
\* insights and 3 to 6 recommendations.
C10_Original ==
    (aPc = "done" /\ aResp.success) =>
        /\ Len(aResp.data.urgentTasks) <= 5
        /\ Len(aResp.data.insights) >= 3 /\ Len(aResp.data.insights) <= 6
        /\ Len(aResp.data.recommendations) >= 3 /\ Len(aResp.data.recommendations) <= 6

\* C10 (amended): a canned zero-task result has a text summary, no urgentTasks, one
\* insight and one recommendation; the deterministic fallback has a text summary, at
\* most 5 urgentTasks, two insights and two recommendations; a result parsed from the
\* model's response is the parsed JSON value itself, whatever its lists hold.
C10_ResultShape ==
    (aPc = "done" /\ aResp.success) =>
        /\ aGen = 0 =>
              /\ aResp.data.summary.tpl \in CannedSummaries
              /\ aResp.data.urgentTasks = <<>>
              /\ Len(aResp.data.insights) = 1
              /\ Len(aResp.data.recommendations) = 1
        /\ (aGen > 0 /\ Unparsable(aText)) =>
              /\ aResp.data.summary.tpl = "fallback"
              /\ Len(aResp.data.urgentTasks) <= 5
              /\ Len(aResp.data.insights) = 2
              /\ Len(aResp.data.recommendations) = 2
        /\ (aGen > 0 /\ ~Unparsable(aText)) =>
              \E k \in 1..Len(aText) : aText[k].kind = "json" /\ aResp.data = aText[k].json

\* C10 witness: a parsed response with seven urgent tasks and one insight was
\* returned as it came.
C10_Witness ==
    /\ aPc = "done" /\ aResp.success
    /\ aGen > 0 /\ ~Unparsable(aText)
    /\ Len(aResp.data.urgentTasks) = 7 /\ Len(aResp.data.insights) = 1

\* ---- helpers of the claims about the failures of normalize-task ----
Threw == pPc = "done" /\ pErr.thrown
HasMarker(ms) == pErr.markers \cap ms /= {}

Answered == aPc = "done"
Refused(st) == ~aResp.success /\ aResp.status = st
\* No read of the store was issued, and no generation call made
NothingIssued == aRange = NoRange /\ aGen = 0

\* C12: analyze-tasks checks the body, the period, the caller, the store read, the
\* zero-task cases, the credential and then calls the generation service; the first
\* check that fails decides the response (400, 400, 401, 500, -, 500, then 429 for a
\* quota/limit failure and 500 for any other exception), and nothing later is executed.
C12_Original ==
    Answered =>
        /\ aBody.kind = "malformed" => (Refused(400) /\ NothingIssued)
        /\ (aBody.kind /= "malformed" /\ aBody.period \notin {"today", "week"}) =>
              (Refused(400) /\ NothingIssued)
        /\ (ValidPeriod(aBody) /\ aUser = 0) => (Refused(401) /\ NothingIssued)
        /\ (ValidPeriod(aBody) /\ aUser /= 0) =>
              /\ aRange /= NoRange
              /\ (~aResp.success /\ aResp.error = "StoreRead") => (Refused(500) /\ aGen = 0)
              /\ (~aResp.success /\ aResp.error = "Config") =>
                    (Refused(500) /\ aGen = 0 /\ ~apiKey /\ Len(aFiltered) > 0)
              /\ aGen > 0 => (apiKey /\ Len(aFiltered) > 0)
              /\ aErr.thrown =>
                    /\ aGen = 1
                    /\ Refused(IF aErr.markers \cap {"quota", "limit"} /= {} THEN 429 ELSE 500)

\* The same statement for every body but the JSON value null.
C12_ExceptNullBody ==
    aBody.kind /= "null" => C12_Original

\* ---- helpers of the claims about the post-processing of normalize-task ----
ObjectReturned == pPc = "done" /\ pParsed.title /= NoTitle

\* C13: for every schema-conforming object, post-processing ends either in the
\* invalid-extracted-date failure (400), when due_date does not parse, or in a success
\* payload whose due_date is a valid instant combining the corrected date and time; a
\* due_date that parsed never ends in another failure.
C13_Original ==
    ObjectReturned =>
        IF ParseDate(pParsed.due_date) = NaN
        THEN ~pResp.success /\ pResp.status = 400 /\ pResp.error = "InvalidExtractedDate"
        ELSE /\ pResp.success
             /\ pResp.data.due_date /= NaN
             /\ LocalDay(pResp.data.due_date) =
                   DaysFromCivil(pFixed.due_date.y, pFixed.due_date.m, pFixed.due_date.d)
             /\ ToLocal(pResp.data.due_date).ms =
                   (ParseHours(pFixed.due_time) * 60 + ParseMinutes(pFixed.due_time)) * 60000

\* The same statement for the objects whose due_date is written YYYY-MM-DD, or is
\* rewritten to today's date by the past-date correction.
C13_DashedDates ==
    (ObjectReturned /\ pFixed.due_date.fmt /= "slash") => C13_Original

(***************************************************************************)
(* C14: scoping of the store operations to the current user                *)
(***************************************************************************)
RowsWithId(rows, id) == SelectSeq(rows, LAMBDA r : r.id = id)

\* The last call: without a user it sent nothing; with one, its request was filtered by
\* that user's id and touched only that user's rows
RequestScoped ==
    /\ last.error = "login" => last.user = 0 /\ last.owners = {}
    /\ last.error \notin {"idle", "login"} =>
          /\ last.user /= 0
          /\ last.scope = last.user
          /\ last.owners \subseteq {last.user}

\* One step of the store: a row keeps its user_id, and a row that appears, changes or
\* disappears belongs to the user of the call that returns in this step
StoreStepOwn ==
    \A id \in RowIds :
        LET before == RowsWithId(store, id)
            after == RowsWithId(store', id)
        IN  /\ (before /= <<>> /\ after /= <<>>) => after[1].user_id = before[1].user_id
            /\ before /= after =>
                  \E c \in TodoClients :
                      /\ call[c] /= NoCall
                      /\ call'[c] = NoCall
                      /\ call[c].user = (IF before /= <<>> THEN before[1].user_id
                                         ELSE after[1].user_id)

\* C14: every store operation of TodoService and of analyze-tasks is scoped to the
\* current user: a user reads, changes or deletes only their own tasks, no operation is
\* performed when no user is authenticated, and a task's user_id never changes.
C14_CurrentUserOnly == [](RequestScoped) /\ [][StoreStepOwn]_vars

\* User 2 asked to update a task while every task of the store belonged to user 1: the
\* request matched no row and the tasks are as user 1 created them.
C14_Witness ==
    /\ last.user = 2
    /\ last.scope = 2
    /\ last.error = "single"
    /\ last.owners = {}
    /\ Len(store) = MaxRows
    /\ \A i \in 1..Len(store) : store[i].user_id = 1 /\ ~store[i].completed

(***************************************************************************)
(* C15: nothing is persisted from a failed normalization                   *)
(***************************************************************************)
\* handleAISubmit returns in this step
ParseEnds == isAIParsing /\ ~isAIParsing'
\* ... and what it read was a usable answer: an ok response with success and data
UsableAnswer == pPc = "done" /\ pResp.status = 200 /\ pResp.success

\* C15: no task is persisted from a failed normalization. No step of normalize-task and
\* no step of the form's AI parse writes to the record store or calls a TodoService
\* operation; and a parse that ends without a usable answer (error response,
\* success:false, network failure) leaves the form's task fields unchanged, records an
\* error message and does not call onSubmit.
C15_FailedParseKeepsForm ==
    [][ /\ (isAIParsing \/ isAIParsing') => (store' = store /\ todoVars' = todoVars)
        /\ (ParseEnds /\ ~UsableAnswer) => errors'.title /= "none"
        /\ (ParseEnds /\ errors'.title /= "none") =>
              /\ formData' = formData
              /\ onSubmitCalls' = onSubmitCalls
              /\ aiInput' = aiInput /\ isAIMode' = isAIMode
              /\ errors' = [NoErrors EXCEPT !.title = errors'.title] ]_vars

\* A form that held a title and the category 'health' shows the error of a parse that
\* normalize-task refused or that the generation failed, and holds the same fields.
C15_Witness ==
    /\ ~isAIParsing
    /\ aiCalls = 1
    /\ errors.title \in {"Generation", "InvalidExtractedDate", "Config", "CheckNetwork"}
    /\ formData = [BlankForm EXCEPT !.title = <<U.a, U.a>>, !.category = "health"]
    /\ onSubmitCalls = 0
    /\ isAIMode

(***************************************************************************)
(* C16: the canonical categories and the store's category constraint       *)
(***************************************************************************)
\* TodoParseSchema (route.ts 20) and TodoFormData (TodoForm.tsx 39): 업무, 개인, 학습, 건강
CanonicalCategories == {"work", "personal", "study", "health"}

\* C16: every task payload whose category is one of the four canonical values satisfies
\* the record store's category constraint, so creating or updating a task with it is
\* not refused by that constraint.
C16_Original ==
    last.category \in CanonicalCategories => last.error /= "check"

\* The same for the three categories the table's CHECK lists
C16_ListedCategories ==
    last.category \in CanonicalCategories \ {"health"} => last.error /= "check"

(***************************************************************************)
(* C17: one reference instant per analyze-tasks request                    *)
(***************************************************************************)
StatsComputed == aStats /= NoStats

\* C17: within one analyze-tasks request the window of getDateRange and the later
\* overdue and due-today computations see the same 'now', even if the wall clock
\* advances while the store read is in progress; so for period=today the count of tasks
\* due on the current calendar date equals the count of in-window tasks.
C17_Original ==
    StatsComputed =>
        /\ aRange = getDateRange(aBody.period, aNow)
        /\ aBody.period = "today" => aStats.todayTasks = aStats.totalCount

\* The same when the two clock reads fall on one calendar day
C17_SameDay ==
    (StatsComputed /\ aRange = getDateRange(aBody.period, aNow)) =>
        (aBody.period = "today" => aStats.todayTasks = aStats.totalCount)

(***************************************************************************)
(* C18: one 'today' per normalize-task request                             *)
(***************************************************************************)
DatesRead == pNow /= NaN
SuccessPayload == pPc = "done" /\ pResp.success

\* C18: within one normalize-task request the date-only 'today' of the past-date
\* comparison is the same calendar date as the 'today' anchor of the prompt that the
\* correction writes, even if the wall clock advances between the steps; so the due date
\* of a success payload is never earlier than the 'today' it was compared against.
C18_Original ==
    /\ DatesRead => WrittenDay(pDates.today) = LocalDay(pNow)
    /\ SuccessPayload => WrittenDay(pFixed.due_date) >= LocalDay(pNow)

\* The same when the two clock reads fall on one calendar day
C18_SameDay ==
    (DatesRead /\ WrittenDay(pDates.today) = LocalDay(pNow)) =>
        (SuccessPayload => WrittenDay(pFixed.due_date) >= LocalDay(pNow))

(***************************************************************************)
(* C19: what preprocessInput does with line breaks                         *)
(***************************************************************************)
Preprocessed == job = "text" /\ nPre = 1

\* Each run of whitespace other than newlines becomes one space
CollapseBlanks(s) ==
    Drop([i \in 1..Len(s) |->
            IF ~IsWhiteSpace(s[i]) \/ s[i] = U.nl THEN s[i]
            ELSE IF i = 1 \/ ~IsWhiteSpace(s[i - 1]) \/ s[i - 1] = U.nl THEN U.sp ELSE -1])

\* C19: preprocessInput trims surrounding whitespace, collapses each run of non-newline
\* whitespace to a single space and each run of newlines to one newline, so a line
\* break between two words is still one newline in the output.
C19_Original ==
    Preprocessed => text = CollapseNewlines(CollapseBlanks(Trim(rawInput)))

\* What the output holds instead: no newline at all, and single spaces for whitespace
C19_NewlinesBecomeSpaces ==
    Preprocessed =>
        /\ \A i \in 1..Len(text) : IsWhiteSpace(text[i]) => text[i] = U.sp
        /\ \A i \in 1..(Len(text) - 1) : ~(IsWhiteSpace(text[i]) /\ IsWhiteSpace(text[i + 1]))
        /\ text = <<>> \/ (~IsWhiteSpace(text[1]) /\ ~IsWhiteSpace(text[Len(text)]))

(***************************************************************************)
(* C20: the windows of getDateRange                                        *)
(***************************************************************************)
\* getDateRange returns in this step; `clock` is the instant it read
WindowResolved == aRange = NoRange /\ aRange' /= NoRange
Within(inner, outer) == AtOrAfter(inner.start, outer.start) /\ AtOrAfter(outer.end, inner.end)

\* C20: for every reference instant the ThisWeek window starts at 00:00:00.000 on a
\* Monday (6 days before the reference day when that day is a Sunday), ends at
\* 23:59:59.999 on the Sunday six days later and contains the reference instant; the
\* Today window [00:00:00.000, 23:59:59.999 of the reference day] lies within it.
C20_WeekWindow ==
    [][ WindowResolved =>
          LET week == IF aBody.period = "week" THEN aRange' ELSE getDateRange("week", clock)
              today == IF aBody.period = "today" THEN aRange' ELSE getDateRange("today", clock)
              day == LocalDay(clock)
          IN  /\ ToLocal(week.start).ms = 0
              /\ WeekDay(ToLocal(week.start).d) = 1
              /\ WeekDay(day) = 0 => ToLocal(week.start).d = day - 6
              /\ ToLocal(week.end).ms = LastMs
              /\ ToLocal(week.end).d = ToLocal(week.start).d + 6
              /\ WeekDay(ToLocal(week.end).d) = 0
              /\ AtOrAfter(clock, week.start) /\ AtOrAfter(week.end, clock)
              /\ ToLocal(today.start) = [d |-> day, ms |-> 0]
              /\ ToLocal(today.end) = [d |-> day, ms |-> LastMs]
              /\ Within(today, week) ]_vars

\* On a Sunday noon the week window was resolved: it began on the Monday six days before
C20_Witness ==
    /\ aPc = "reading"
    /\ aBody.period = "week"
    /\ clock.ms = MsPerDay \div 2
    /\ WeekDay(LocalDay(clock)) = 0
    /\ ToLocal(aRange.start) = [d |-> LocalDay(clock) - 6, ms |-> 0]
    /\ ToLocal(aRange.end) = [d |-> LocalDay(clock), ms |-> LastMs]

(***************************************************************************)
(* C21: the task set analyze-tasks aggregates                              *)
(***************************************************************************)
\* The store read of the request came back with rows
ReadReturned ==
    /\ aRange /= NoRange
    /\ aPc \in {"generating", "done"}
    /\ aPc = "done" => (aResp.success \/ aResp.error /= "StoreRead")
\* The k-th of the caller's in-window rows, in the order of the store
NthInWindow(k) == CHOOSE i \in OwnInWindow : Cardinality({j \in OwnInWindow : j < i}) = k - 1

\* C21: the task set analyze-tasks aggregates is exactly the subset of the owner's
\* tasks whose due instant lies in the resolved window, start and end inclusive; a task
\* with no due instant is never in it, and a task outside the window contributes to no
\* count and not to the fallback's urgentTasks.
C21_FilteredSet ==
    ReadReturned =>
        /\ Len(aFiltered) = Cardinality(OwnInWindow)
        /\ \A k \in 1..Len(aFiltered) : aFiltered[k] = store[NthInWindow(k)]
        /\ \A k \in 1..Len(aFiltered) : aFiltered[k].due /= NoDue
        /\ StatsComputed =>
              /\ aStats.totalCount = Cardinality(OwnInWindow)
              /\ aStats.completedCount = Cardinality({i \in OwnInWindow : store[i].completed})
              /\ aStats.overdueTasks <= Cardinality(OwnInWindow)
              /\ aStats.todayTasks <= Cardinality(OwnInWindow)
              /\ aStats.high.total + aStats.medium.total + aStats.low.total
                    = Cardinality(OwnInWindow)
        /\ (Returned /\ Unparsable(aText)) =>
              \A k \in 1..Len(aResp.data.urgentTasks) :
                  \E i \in OwnInWindow : store[i].title = aResp.data.urgentTasks[k]

\* Of a task without a due instant and a task due at the very end of the window, the
\* second alone was aggregated.
C21_Witness ==
    /\ StatsComputed
    /\ Len(store) = 2
    /\ \E i \in 1..Len(store) : store[i].due = NoDue
    /\ Len(aFiltered) = 1
    /\ aFiltered[1].due = aRange.end
    /\ aStats.totalCount = 1

(***************************************************************************)
(* C22: the time-of-day buckets                                            *)
(***************************************************************************)
\* The filtered tasks whose due instant has a local hour from lo up to, not including, hi
DueBetween(lo, hi) ==
    {i \in 1..Len(aFiltered) :
        LET hour == ToLocal(aFiltered[i].due).ms \div 3600000
        IN  hour >= lo /\ hour < hi}

\* C22: each filtered task is counted in at most one of the morning [6,12), afternoon
\* [12,18) and evening [18,24) buckets, by the local hour of its due instant, and a task
\* due before 06:00 in none: the three counts never exceed the total and sum to the total
\* less the number of tasks due before 06:00.
C22_TimeBuckets ==
    StatsComputed =>
        /\ aStats.morningTasks = Cardinality(DueBetween(6, 12))
        /\ aStats.afternoonTasks = Cardinality(DueBetween(12, 18))
        /\ aStats.eveningTasks = Cardinality(DueBetween(18, 24))
        /\ aStats.morningTasks + aStats.afternoonTasks + aStats.eveningTasks
              <= aStats.totalCount
        /\ aStats.morningTasks + aStats.afternoonTasks + aStats.eveningTasks
              = aStats.totalCount - Cardinality(DueBetween(0, 6))

\* Of a task due at 03:00 and a task due at 20:00, only the second is in a bucket.
C22_Witness ==
    /\ StatsComputed
    /\ aStats.totalCount = 2
    /\ Cardinality(DueBetween(0, 6)) = 1
    /\ aStats.eveningTasks = 1
    /\ aStats.morningTasks = 0 /\ aStats.afternoonTasks = 0

(***************************************************************************)
(* C23: a success payload in front of validateForm                         *)
(***************************************************************************)
\* handleAISubmit loads a success payload into the form in this step
PayloadLoaded == ParseEnds /\ UsableAnswer /\ errors'.title = "none"

\* C23: every success payload of normalize-task, once handleAISubmit has loaded it into
\* the form, passes validateForm and can be submitted as it is, a payload dated today
\* at the default time 09:00 included, at any time of day.
C23_Original ==
    [][ PayloadLoaded =>
          /\ validateForm(formData', clock') = NoErrors
          /\ Trim(formData'.title) /= <<>> ]_vars

\* The same for the payloads whose due instant is not before the instant of validation
C23_DueNotPassed ==
    [][ (PayloadLoaded /\ ~Before(formData'.due_date, clock')) =>
          /\ validateForm(formData', clock') = NoErrors
          /\ Trim(formData'.title) /= <<>> ]_vars

\* ---- C24 ----
\* C24: the loading flags prevent duplicate AI requests: at most one normalize-task request
\* of the form and at most one analysis request of the panel are in flight at any time,
\* no request starts while its flag is true, and when a request settles (success, error
\* response or thrown error) its flag is false again, so that a new request can start.
OneInFlight ==
    /\ parsesInFlight <= 1 /\ (isAIParsing <=> parsesInFlight = 1)
    /\ analysesInFlight <= 1 /\ (loading <=> analysesInFlight = 1)
FlagsFollowRequests ==
    /\ isAIParsing => parsesInFlight' <= parsesInFlight
    /\ loading => analysesInFlight' <= analysesInFlight
    /\ parsesInFlight' < parsesInFlight => ~isAIParsing'
    /\ analysesInFlight' < analysesInFlight => ~loading'
C24_NoDuplicateRequests == [](OneInFlight) /\ [][FlagsFollowRequests]_vars
\* Both components have a second request in flight: the form after its first one was
\* answered, the panel after a week analysis succeeded and a today analysis failed
C24_Witness ==
    /\ aiCalls = 2 /\ parsesInFlight = 1 /\ isAIParsing
    /\ analysisData = "week" /\ analysisPeriod = "today" /\ analysesInFlight = 1 /\ loading

\* ---- C25 ----
\* C25: when the filters change while an earlier fetchTodos is in flight, then once all
\* fetches have completed `todos` holds the result of the latest filters; a late response
\* for older filters never overwrites the newer one.
FetchesDone == fetches = <<>> /\ lastRead /= "none"
C25_Original == FetchesDone => shownFor = todoFilters

\* ---- C26 ----
\* C26: every toggle that is applied inverts the completed flag the store holds at that
\* moment, so that two toggles of a task, also back to back before the first response,
\* leave the stored value as it was.
ToggleApplied == toggles /= <<>> /\ toggles' = Tail(toggles) /\ last'.error = "none"
C26_Original ==
    [][ToggleApplied =>
          \A k \in 1..Len(store) :
              store[k].id = Head(toggles).id =>
                  /\ Len(store') = Len(store)
                  /\ store'[k].completed = ~store[k].completed]_vars

\* ---- C27 ----
\* C27: with the filters unchanged since the list was fetched, after any sequence of
\* successful create, update, toggle and delete calls the hook's list holds only tasks
\* that satisfy the active status filter, as a fresh getTodos would return.
ListFetched == fetches = <<>> /\ lastRead = "ok" /\ shownFor = todoFilters
C27_Original ==
    ListFetched =>
        \A i \in 1..Len(todoList) : StatusFilter(todoFilters.status, todoList[i], clock)

\* ---- C28 ----
\* C28: when the read of getTodos fails (store error or no user), fetchTodos ends with a
\* non-null error and loading false: a failed read is never shown as an empty list.
ReadFailed == fetches = <<>> /\ lastRead = "failed"
C28_Original == ReadFailed => todosError /= "null" /\ ~todosLoading

\* ---- C29 ----
\* C29: AuthGuard renders its children only when loading is false and the user state
\* matches requireAuth (a user when requireAuth is true, none when it is false), after
\* any sequence of session initialisation and auth state change events.
C29_GuardRendersChildren ==
    \A requireAuth \in BOOLEAN :
        AuthGuard(requireAuth) = "children" =>
            /\ ~authLoading
            /\ requireAuth => authUser /= 0
            /\ ~requireAuth => authUser = 0
\* After the initialisation found no session a sign-in was announced and handled: the
\* protected pages show, the login page does not
C29_Witness ==
    /\ initAuth = "done" /\ authEvents = <<>> /\ authUser = AuthUser /\ pathname = "/"
    /\ AuthGuard(TRUE) = "children" /\ AuthGuard(FALSE) = "null"

\* ---- C30 ----
\* C30: the statistics of one analysis agree with each other: completed + pending =
\* total; the three per-priority totals sum to total and each per-priority completed
\* count is at most its total; the per-category totals sum to total and the per-category
\* completed counts sum to the completed count; overdue <= pending.
RECURSIVE SumOfCategories(_, _, _)
SumOfCategories(byCategory, categories, completedOnly) ==
    IF categories = {} THEN 0
    ELSE LET c == CHOOSE x \in categories : TRUE
         IN  (IF completedOnly THEN byCategory[c].completed ELSE byCategory[c].total)
             + SumOfCategories(byCategory, categories \ {c}, completedOnly)
C30_StatsAgree ==
    StatsComputed =>
        /\ aStats.completedCount + aStats.pendingCount = aStats.totalCount
        /\ aStats.high.total + aStats.medium.total + aStats.low.total = aStats.totalCount
        /\ aStats.high.completed <= aStats.high.total
        /\ aStats.medium.completed <= aStats.medium.total
        /\ aStats.low.completed <= aStats.low.total
        /\ SumOfCategories(aStats.categoryStats, DOMAIN aStats.categoryStats, FALSE)
              = aStats.totalCount
        /\ SumOfCategories(aStats.categoryStats, DOMAIN aStats.categoryStats, TRUE)
              = aStats.completedCount
        /\ aStats.overdueTasks <= aStats.pendingCount
\* Two tasks of different priority and category, one completed, the other overdue
C30_Witness ==
    /\ StatsComputed
    /\ aStats.totalCount = 2 /\ aStats.completedCount = 1 /\ aStats.overdueTasks = 1
    /\ Cardinality(DOMAIN aStats.categoryStats) = 2
    /\ aStats.low.total = 1 /\ aStats.low.completed = 1

====
